---------------------------- MODULE Spec2Model ----------------------------
(***************************************************************************)
(* A model of the handle-based key/value cache of practical/KV_cache:      *)
(*   - FdToken, the handle codec                  (assets/fd_token.h)      *)
(*   - detail::FlatIndexMap, the flat index       (assets/detail/...)      *)
(*   - FdKVCache, the single-owner cache          (fd_kv_cache_single.h)   *)
(*   - ShardedFdKVCache, the sharded cache        (assets/fd_token.h)      *)
(*                                                                         *)
(* The source packs a handle as [ type:8 | generation:24 | position:32 ].  *)
(* The model is parametric in the three field widths and is checked with   *)
(* narrow fields, so that a handle is a small integer, every handle can be *)
(* enumerated as an input, and the generation wrap is reached.             *)
(***************************************************************************)
EXTENDS Integers, Sequences, FiniteSets, TLC

(***************************************************************************)
(* Bounds of the model.                                                    *)
(***************************************************************************)
\* width of the position field of a handle (32 in the source)
kPositionBits == 2
\* width of the generation field of a handle (24 in the source)
kGenerationBits == 2
\* width of the type field of a handle (8 in the source)
kTypeBits == 1
\* keys are 0..MaxKey
MaxKey == 2
\* values are 0..MaxValue
MaxValue == 1
\* the constructor's reserve_hint is drawn from 0..MaxReserve
MaxReserve == 2
\* a client remembers at most MaxHeld of the handles it was given
MaxHeld == 2
\* the hash of a key is one of 0..MaxHash
MaxHash == 1
\* a run has at most MaxErases successful calls of Erase
MaxErases == 2
\* a long run uses the keys 0..MaxLongKey
MaxLongKey == 1
\* width of the shard id within a position (8 in the source)
kShardBits == 1
\* the sharded constructor's shard_count is drawn from 0..MaxShardCount
MaxShardCount == 3
\* the total capacity taken for reserve_hint == 0 is 1 << kDefaultReserveBits
\* (1 << 15 in the source)
kDefaultReserveBits == 1
\* a flat index used on its own is initialised with max_entries in
\* 0..MaxEntries
MaxEntries == 2

\* the threads that call a sharded cache
MaxThreads == 2

\* the calls of Erase the threads make in a run
MaxThreadErases == 1

\* the calls of Add that are counted for a slot
MaxAdds == 2

\* width of std::size_t (64 on the platforms the source is built for)
kSizeBits == 4

RECURSIVE Pow2(_)
Pow2(n) == IF n = 0 THEN 1 ELSE 2 * Pow2(n - 1)

Keys == 0 .. MaxKey
Values == 0 .. MaxValue
Types == 0 .. (Pow2(kTypeBits) - 1)
Handles == 0 .. (Pow2(kTypeBits + kGenerationBits + kPositionBits) - 1)

(***************************************************************************)
(* FdToken: the handle codec.                                              *)
(***************************************************************************)
kNull == 0

\* the three masks, as the first value above each field and the field's unit
kGenerationUnit == Pow2(kPositionBits)
kTypeUnit == Pow2(kPositionBits + kGenerationBits)
kPositionSpan == Pow2(kPositionBits)
kGenerationSpan == Pow2(kGenerationBits)
kTypeSpan == Pow2(kTypeBits)

\* x & kPositionMask
AndPositionMask(x) == x % kPositionSpan

\* x & kGenerationMask
AndGenerationMask(x) == ((x \div kGenerationUnit) % kGenerationSpan) * kGenerationUnit

\* x & kTypeMask
AndTypeMask(x) == ((x \div kTypeUnit) % kTypeSpan) * kTypeUnit

\* a | b, bit by bit
RECURSIVE BitOr(_, _)
BitOr(a, b) ==
    IF a = 0 THEN b
    ELSE IF b = 0 THEN a
    ELSE (IF a % 2 = 1 \/ b % 2 = 1 THEN 1 ELSE 0) + 2 * BitOr(a \div 2, b \div 2)

\* a variant of Make that shifts the generation without masking it
MakeWithoutGenerationMask(type, generation, position) ==
    LET t == AndTypeMask(type * kTypeUnit)
        g == generation * kGenerationUnit
        p == AndPositionMask(position)
    IN  BitOr(BitOr(t, g), p)

Make(type, generation, position) ==
    LET t == AndTypeMask(type * kTypeUnit)
        g == AndGenerationMask(generation * kGenerationUnit)
        p == AndPositionMask(position)
    IN  BitOr(BitOr(t, g), p)

Type(token) == AndTypeMask(token) \div kTypeUnit

Generation(token) == AndGenerationMask(token) \div kGenerationUnit

Position(token) == AndPositionMask(token)

IsNull(token) == token = kNull

(***************************************************************************)
(* detail::FlatIndexMap.  A map is a record                                *)
(*   [table_, mask_, max_entries_, size_, tombstones_, hasher_]            *)
(* whose table_ is a function from 0..len-1 to entries.                    *)
(***************************************************************************)
kEmpty == 0
kOccupied == 1
kDeleted == 2
kNpos == -1

RECURSIVE PowerOfTwoFrom(_, _)
PowerOfTwoFrom(p, n) == IF p >= n THEN p ELSE PowerOfTwoFrom(2 * p, n)

\* the bit smearing of the source yields the least power of two >= n
NextPowerOfTwo(n) == IF n <= 1 THEN 1 ELSE PowerOfTwoFrom(1, n)

EmptyEntry == [key |-> 0, value |-> 0, state |-> kEmpty]

FlatInit(max_entries, hasher) ==
    LET me == IF max_entries = 0 THEN 1 ELSE max_entries
        capacity == NextPowerOfTwo(me * 2)
    IN  [table_ |-> [i \in 0 .. (capacity - 1) |-> EmptyEntry],
         mask_ |-> capacity - 1,
         max_entries_ |-> me,
         size_ |-> 0,
         tombstones_ |-> 0,
         hasher_ |-> hasher]

\* table_.size(): Init makes it mask_ + 1 and nothing resizes it
TableSize(m) == m.mask_ + 1

\* hasher_(key) & mask_ ; mask_ + 1 is a power of two
ProbeStart(m, key) == m.hasher_[key] % (m.mask_ + 1)

NextIndex(m, idx) == (idx + 1) % (m.mask_ + 1)

NotFound == [found |-> FALSE, value |-> 0]

\* a variant of the probe of Find that stops at a tombstone
RECURSIVE FindFromStopAtDeleted(_, _, _, _)
FindFromStopAtDeleted(m, key, idx, i) ==
    IF i >= TableSize(m) THEN NotFound
    ELSE LET entry == m.table_[idx] IN
         IF entry.state = kEmpty \/ entry.state = kDeleted THEN NotFound
         ELSE IF entry.state = kOccupied /\ entry.key = key
              THEN [found |-> TRUE, value |-> entry.value]
              ELSE FindFromStopAtDeleted(m, key, NextIndex(m, idx), i + 1)

RECURSIVE FindFrom(_, _, _, _)
FindFrom(m, key, idx, i) ==
    IF i >= TableSize(m) THEN NotFound
    ELSE LET entry == m.table_[idx] IN
         IF entry.state = kEmpty THEN NotFound
         ELSE IF entry.state = kOccupied /\ entry.key = key
              THEN [found |-> TRUE, value |-> entry.value]
              ELSE FindFrom(m, key, NextIndex(m, idx), i + 1)

FlatFind(m, key) ==
    IF TableSize(m) = 0 THEN NotFound
    ELSE FindFrom(m, key, ProbeStart(m, key), 0)

\* a variant of CanInsertNew without the capacity check
CanInsertNewAlways(m) == TRUE

\* a variant of CanInsertNew that counts the tombstones against the capacity
CanInsertNewCountingTombstones(m) == m.size_ + m.tombstones_ < m.max_entries_

CanInsertNew(m) == m.size_ < m.max_entries_

\* a variant of InsertAt that does not count a reused tombstone off
InsertAtKeepTombstones(m, idx, key, value) ==
    LET entry == m.table_[idx] IN
    IF entry.state = kOccupied
    THEN [ok |-> TRUE, m |-> [m EXCEPT !.table_[idx].value = value]]
    ELSE IF ~CanInsertNew(m)
    THEN [ok |-> FALSE, m |-> m]
    ELSE [ok |-> TRUE,
          m |-> [m EXCEPT
                   !.table_[idx] = [key |-> key, value |-> value,
                                    state |-> kOccupied],
                   !.size_ = @ + 1]]

InsertAt(m, idx, key, value) ==
    LET entry == m.table_[idx] IN
    IF entry.state = kOccupied
    THEN [ok |-> TRUE, m |-> [m EXCEPT !.table_[idx].value = value]]
    ELSE IF ~CanInsertNew(m)
    THEN [ok |-> FALSE, m |-> m]
    ELSE [ok |-> TRUE,
          m |-> [m EXCEPT
                   !.tombstones_ = IF entry.state = kDeleted THEN @ - 1 ELSE @,
                   !.table_[idx] = [key |-> key, value |-> value,
                                    state |-> kOccupied],
                   !.size_ = @ + 1]]

\* a variant of the probe of Insert that forgets the tombstones it passed
RECURSIVE InsertFromAtFirstEmpty(_, _, _, _, _, _)
InsertFromAtFirstEmpty(m, key, value, idx, first_deleted, i) ==
    IF i >= TableSize(m)
    THEN IF first_deleted # kNpos
         THEN InsertAt(m, first_deleted, key, value)
         ELSE [ok |-> FALSE, m |-> m]
    ELSE LET entry == m.table_[idx] IN
         IF entry.state = kEmpty
         THEN InsertAt(m, idx, key, value)
         ELSE IF entry.state = kDeleted
         THEN InsertFromAtFirstEmpty(m, key, value, NextIndex(m, idx),
                                     IF first_deleted = kNpos THEN idx
                                                              ELSE first_deleted,
                                     i + 1)
         ELSE IF entry.key = key
         THEN [ok |-> TRUE, m |-> [m EXCEPT !.table_[idx].value = value]]
         ELSE InsertFromAtFirstEmpty(m, key, value, NextIndex(m, idx),
                                     first_deleted, i + 1)

RECURSIVE InsertFrom(_, _, _, _, _, _)
InsertFrom(m, key, value, idx, first_deleted, i) ==
    IF i >= TableSize(m)
    THEN IF first_deleted # kNpos
         THEN InsertAt(m, first_deleted, key, value)
         ELSE [ok |-> FALSE, m |-> m]
    ELSE LET entry == m.table_[idx] IN
         IF entry.state = kEmpty
         THEN InsertAt(m, IF first_deleted = kNpos THEN idx ELSE first_deleted,
                       key, value)
         ELSE IF entry.state = kDeleted
         THEN InsertFrom(m, key, value, NextIndex(m, idx),
                         IF first_deleted = kNpos THEN idx ELSE first_deleted,
                         i + 1)
         ELSE IF entry.key = key
         THEN [ok |-> TRUE, m |-> [m EXCEPT !.table_[idx].value = value]]
         ELSE InsertFrom(m, key, value, NextIndex(m, idx), first_deleted, i + 1)

FlatInsert(m, key, value) ==
    IF TableSize(m) = 0 THEN [ok |-> FALSE, m |-> m]
    ELSE InsertFrom(m, key, value, ProbeStart(m, key), kNpos, 0)

\* a variant of the probe of Erase that empties the entry it erases
RECURSIVE EraseFromLeavingEmpty(_, _, _, _)
EraseFromLeavingEmpty(m, key, idx, i) ==
    IF i >= TableSize(m) THEN [ok |-> FALSE, m |-> m]
    ELSE LET entry == m.table_[idx] IN
         IF entry.state = kEmpty THEN [ok |-> FALSE, m |-> m]
         ELSE IF entry.state = kOccupied /\ entry.key = key
              THEN [ok |-> TRUE,
                    m |-> [m EXCEPT !.table_[idx].state = kEmpty,
                                    !.size_ = @ - 1]]
              ELSE EraseFromLeavingEmpty(m, key, NextIndex(m, idx), i + 1)

RECURSIVE EraseFrom(_, _, _, _)
EraseFrom(m, key, idx, i) ==
    IF i >= TableSize(m) THEN [ok |-> FALSE, m |-> m]
    ELSE LET entry == m.table_[idx] IN
         IF entry.state = kEmpty THEN [ok |-> FALSE, m |-> m]
         ELSE IF entry.state = kOccupied /\ entry.key = key
              THEN [ok |-> TRUE,
                    m |-> [m EXCEPT !.table_[idx].state = kDeleted,
                                    !.size_ = @ - 1,
                                    !.tombstones_ = @ + 1]]
              ELSE EraseFrom(m, key, NextIndex(m, idx), i + 1)

FlatErase(m, key) ==
    IF TableSize(m) = 0 THEN [ok |-> FALSE, m |-> m]
    ELSE EraseFrom(m, key, ProbeStart(m, key), 0)


(***************************************************************************)
(* FdKVCache: the single-owner cache.                                      *)
(***************************************************************************)
VARIABLES
    slots_,             \* std::vector<Slot>, a function from 0..capacity-1
    free_positions_,    \* std::vector<uint32_t>, the freelist (back = last)
    key_to_position_,   \* detail::FlatIndexMap, key -> position
    next_unused_,       \* the bump cursor
    size_,              \* the number of live entries
    last,               \* the last call of the client: its arguments and result
    stale,              \* handles the client saw Erase accept, each with the
                        \* number of later erases of its position
    issued,             \* handles the client got from Insert, each with its key
                        \* and the number of later erases of its position
    erases,             \* the number of calls of Erase that returned true
    shards_,            \* ShardedFdKVCache: std::unique_ptr<Shard[]>, a function
                        \* from 0..shard_count-1; empty when the program has
                        \* no sharded cache
    sharded_hasher_,    \* ShardedFdKVCache::hasher_
    sharded_size_,      \* ShardedFdKVCache::size_, the atomic counter
    flat_,              \* a detail::FlatIndexMap used on its own
    ref_,               \* the map flat_ stands for: key -> value, or Absent
    threads_,           \* the threads calling the sharded cache: the call
                        \* each is in, its arguments, locals and position
    mutex_,             \* Shard::mutex of every shard: the thread that holds
                        \* it exclusively, and the threads that hold it shared
    sum_,               \* for every position Insert filled: the value inserted
                        \* plus the deltas of the Add calls that returned true,
                        \* and the number of these calls
    call_,              \* a call of a function that reads no state: the name
                        \* of the function and its arguments
    ret_,               \* what that call returned, <<>> before it returns
    probe_              \* a call of Find, Insert or Erase of flat_ that runs
                        \* one iteration of its probe loop at a time: the
                        \* call, the locals of the loop, and what it returned

cacheVars == <<slots_, free_positions_, key_to_position_, next_unused_, size_>>
shardedVars == <<shards_, sharded_hasher_, sharded_size_>>
flatVars == <<flat_, ref_>>
threadVars == <<threads_, mutex_>>
pureVars == <<call_, ret_, probe_>>
otherVars == <<flatVars, threadVars, pureVars>>
vars == <<slots_, free_positions_, key_to_position_, next_unused_, size_,
          last, stale, issued, erases,
          shards_, sharded_hasher_, sharded_size_, flat_, ref_,
          threads_, mutex_, sum_, call_, ret_, probe_>>

\* 0xffffffff in the source: every bit of a position set
kInvalidPosition == kPositionSpan - 1

kMaxGeneration == kGenerationSpan - 1

\* a variant of Slot whose generation starts at 0
DefaultSlotGenerationZero == [key |-> 0, value |-> 0, generation |-> 0,
                              type |-> 0, occupied |-> 0]

\* a Slot as its member initialisers leave it
DefaultSlot == [key |-> 0, value |-> 0, generation |-> 1, type |-> 0,
                occupied |-> 0]

SlotCount == Cardinality(DOMAIN slots_)

\* a variant of Reserve whose index has room for one key less than the slots
ReserveSmallIndex(n, hasher) ==
    LET cap == IF n = 0 THEN 1 ELSE n IN
    [slots_ |-> [p \in 0 .. (cap - 1) |-> DefaultSlot],
     free_positions_ |-> <<>>,
     key_to_position_ |-> FlatInit(cap - 1, hasher),
     next_unused_ |-> 0,
     size_ |-> 0]

\* the state Reserve(n) leaves, for an index hashing with hasher
Reserve(n, hasher) ==
    LET cap == IF n = 0 THEN 1 ELSE n IN
    [slots_ |-> [p \in 0 .. (cap - 1) |-> DefaultSlot],
     free_positions_ |-> <<>>,
     key_to_position_ |-> FlatInit(cap, hasher),
     next_unused_ |-> 0,
     size_ |-> 0]

size == size_

empty == size_ = 0

\* a variant of AllocatePosition that leaves the position on the freelist
AllocatePositionNoPop ==
    IF free_positions_ # <<>>
    THEN [pos |-> free_positions_[Len(free_positions_)],
          free_positions_ |-> free_positions_,
          next_unused_ |-> next_unused_]
    ELSE IF next_unused_ >= SlotCount
    THEN [pos |-> kInvalidPosition,
          free_positions_ |-> free_positions_,
          next_unused_ |-> next_unused_]
    ELSE [pos |-> next_unused_,
          free_positions_ |-> free_positions_,
          next_unused_ |-> next_unused_ + 1]

\* a variant of AllocatePosition that takes the front of the freelist
AllocatePositionFifo ==
    IF free_positions_ # <<>>
    THEN [pos |-> free_positions_[1],
          free_positions_ |-> SubSeq(free_positions_, 2,
                                     Len(free_positions_)),
          next_unused_ |-> next_unused_]
    ELSE IF next_unused_ >= SlotCount
    THEN [pos |-> kInvalidPosition,
          free_positions_ |-> free_positions_,
          next_unused_ |-> next_unused_]
    ELSE [pos |-> next_unused_,
          free_positions_ |-> free_positions_,
          next_unused_ |-> next_unused_ + 1]

\* the position handed out, and the freelist and the cursor afterwards
AllocatePosition ==
    IF free_positions_ # <<>>
    THEN [pos |-> free_positions_[Len(free_positions_)],
          free_positions_ |-> SubSeq(free_positions_, 1,
                                     Len(free_positions_) - 1),
          next_unused_ |-> next_unused_]
    ELSE IF next_unused_ >= SlotCount
    THEN [pos |-> kInvalidPosition,
          free_positions_ |-> free_positions_,
          next_unused_ |-> next_unused_]
    ELSE [pos |-> next_unused_,
          free_positions_ |-> free_positions_,
          next_unused_ |-> next_unused_ + 1]

\* a variant of NextGeneration that wraps to the reserved generation 0
NextGenerationToZero(g) == IF g >= kMaxGeneration THEN 0 ELSE g + 1

\* a variant of NextGeneration that leaves the generation as it is
NextGenerationStuck(g) == g

NextGeneration(g) == IF g >= kMaxGeneration THEN 1 ELSE g + 1

\* a variant of BuildHandle that leaves the type out of the handle
BuildHandleInNoType(slots, pos) == Make(0, slots[pos].generation, pos)

\* BuildHandle over a given slot array
BuildHandleIn(slots, pos) ==
    Make(slots[pos].type, slots[pos].generation, pos)

BuildHandle(pos) == BuildHandleIn(slots_, pos)

\* a variant of ValidateHandle without the comparison of the types
ValidateHandleInNoType(slots, handle) ==
    IF IsNull(handle) THEN kInvalidPosition
    ELSE LET pos == Position(handle) IN
         IF pos >= Cardinality(DOMAIN slots) THEN kInvalidPosition
         ELSE IF slots[pos].occupied = 0 THEN kInvalidPosition
         ELSE IF slots[pos].generation # Generation(handle)
              THEN kInvalidPosition
              ELSE pos

\* ValidateHandle over a given slot array
ValidateHandleIn(slots, handle) ==
    IF IsNull(handle) THEN kInvalidPosition
    ELSE LET pos == Position(handle) IN
         IF pos >= Cardinality(DOMAIN slots) THEN kInvalidPosition
         ELSE IF slots[pos].occupied = 0 THEN kInvalidPosition
         ELSE IF slots[pos].type # Type(handle) THEN kInvalidPosition
         ELSE IF slots[pos].generation # Generation(handle)
              THEN kInvalidPosition
              ELSE pos

ValidateHandle(handle) == ValidateHandleIn(slots_, handle)

\* the current state as one record, with the result of a call
Outcome(slots, free, index, next, sz, ret) ==
    [slots_ |-> slots, free_positions_ |-> free, key_to_position_ |-> index,
     next_unused_ |-> next, size_ |-> sz, ret |-> ret]

Unchanged(ret) ==
    Outcome(slots_, free_positions_, key_to_position_, next_unused_, size_, ret)

\* a variant of Insert that fills the slot and leaves the index alone
InsertNewSkipIndex(type, key, value) ==
    LET a == AllocatePosition IN
    IF a.pos = kInvalidPosition THEN Unchanged(kNull)
    ELSE LET slots1 == [slots_ EXCEPT ![a.pos] =
                          [@ EXCEPT !.key = key, !.value = value,
                                    !.type = type, !.occupied = 1]]
         IN  Outcome(slots1, a.free_positions_, key_to_position_,
                     a.next_unused_, size_ + 1, BuildHandleIn(slots1, a.pos))

\* Insert of a key the index does not hold: allocation, the slot, the index
InsertNew(type, key, value) ==
    LET a == AllocatePosition IN
    IF a.pos = kInvalidPosition THEN Unchanged(kNull)
    ELSE LET slots1 == [slots_ EXCEPT ![a.pos] =
                          [@ EXCEPT !.key = key, !.value = value,
                                    !.type = type, !.occupied = 1]]
             r == FlatInsert(key_to_position_, key, a.pos)
         IN  IF ~r.ok
             THEN Outcome([slots1 EXCEPT ![a.pos].occupied = 0],
                          Append(a.free_positions_, a.pos),
                          r.m, a.next_unused_, size_, kNull)
             ELSE Outcome(slots1, a.free_positions_, r.m,
                          a.next_unused_, size_ + 1,
                          BuildHandleIn(slots1, a.pos))

\* a variant of Insert that assigns the value of a key it finds
InsertResultOverwrite(type, key, value) ==
    LET f == FlatFind(key_to_position_, key) IN
    IF f.found
    THEN Outcome([slots_ EXCEPT ![f.value].value = value], free_positions_,
                 key_to_position_, next_unused_, size_, BuildHandle(f.value))
    ELSE InsertNew(type, key, value)

\* Insert: the state it leaves and the handle it returns
InsertResult(type, key, value) ==
    LET f == FlatFind(key_to_position_, key) IN
    IF f.found THEN Unchanged(BuildHandle(f.value))
    ELSE InsertNew(type, key, value)

\* a variant of InsertOrAssign that assigns the value and not the type
InsertOrAssignResultKeepType(type, key, value) ==
    LET f == FlatFind(key_to_position_, key) IN
    IF f.found
    THEN LET slots1 == [slots_ EXCEPT ![f.value].value = value]
         IN  Outcome(slots1, free_positions_, key_to_position_, next_unused_,
                     size_, BuildHandleIn(slots1, f.value))
    ELSE InsertResult(type, key, value)

InsertOrAssignResult(type, key, value) ==
    LET f == FlatFind(key_to_position_, key) IN
    IF f.found
    THEN LET slots1 == [slots_ EXCEPT ![f.value] =
                          [@ EXCEPT !.value = value, !.type = type]]
         IN  Outcome(slots1, free_positions_, key_to_position_, next_unused_,
                     size_, BuildHandleIn(slots1, f.value))
    ELSE InsertResult(type, key, value)

\* Get: a pointer to the value of a slot is <<pos>>, the null pointer is <<>>
nullptr == <<>>

\* Get over a given slot array
GetResultIn(slots, handle) ==
    LET pos == ValidateHandleIn(slots, handle) IN
    IF pos = kInvalidPosition THEN nullptr ELSE <<pos>>

GetResult(handle) == GetResultIn(slots_, handle)

\* the value a non-null pointer points to
DerefIn(slots, ptr) == slots[ptr[1]].value

\* a variant of Erase that does not decrement size_
EraseResultNoSizeDec(handle) ==
    LET pos == ValidateHandle(handle) IN
    IF pos = kInvalidPosition THEN Unchanged(FALSE)
    ELSE LET r == FlatErase(key_to_position_, slots_[pos].key) IN
         IF ~r.ok THEN Unchanged(FALSE)
         ELSE Outcome([slots_ EXCEPT ![pos] =
                         [@ EXCEPT !.occupied = 0, !.type = 0,
                                   !.generation = NextGeneration(@)]],
                      Append(free_positions_, pos),
                      r.m, next_unused_, size_, TRUE)

\* a variant of Erase that leaves the occupied flag set
EraseResultStillOccupied(handle) ==
    LET pos == ValidateHandle(handle) IN
    IF pos = kInvalidPosition THEN Unchanged(FALSE)
    ELSE LET r == FlatErase(key_to_position_, slots_[pos].key) IN
         IF ~r.ok THEN Unchanged(FALSE)
         ELSE Outcome([slots_ EXCEPT ![pos] =
                         [@ EXCEPT !.type = 0,
                                   !.generation = NextGeneration(@)]],
                      Append(free_positions_, pos),
                      r.m, next_unused_, size_ - 1, TRUE)

\* a variant of Erase that leaves the key in the index
EraseResultKeepIndex(handle) ==
    LET pos == ValidateHandle(handle) IN
    IF pos = kInvalidPosition THEN Unchanged(FALSE)
    ELSE LET r == FlatErase(key_to_position_, slots_[pos].key) IN
         IF ~r.ok THEN Unchanged(FALSE)
         ELSE Outcome([slots_ EXCEPT ![pos] =
                         [@ EXCEPT !.occupied = 0, !.type = 0,
                                   !.generation = NextGeneration(@)]],
                      Append(free_positions_, pos),
                      key_to_position_, next_unused_, size_ - 1, TRUE)

EraseResult(handle) ==
    LET pos == ValidateHandle(handle) IN
    IF pos = kInvalidPosition THEN Unchanged(FALSE)
    ELSE LET r == FlatErase(key_to_position_, slots_[pos].key) IN
         IF ~r.ok THEN Unchanged(FALSE)
         ELSE Outcome([slots_ EXCEPT ![pos] =
                         [@ EXCEPT !.occupied = 0, !.type = 0,
                                   !.generation = NextGeneration(@)]],
                      Append(free_positions_, pos),
                      r.m, next_unused_, size_ - 1, TRUE)

\* FindHandle over a given slot array and index
FindHandleIn(slots, index, key) ==
    LET f == FlatFind(index, key) IN
    IF ~f.found THEN kNull ELSE BuildHandleIn(slots, f.value)

FindHandleResult(key) == FindHandleIn(slots_, key_to_position_, key)

(***************************************************************************)
(* ShardedFdKVCache: the position of a handle is [ shard_id | local ], and *)
(* every shard has its own slots, freelist, cursor and index.  A shard is  *)
(* a record [slots, free_positions, key_to_local, next_unused].  Each      *)
(* operator below is the whole of a method, as it runs under the lock of   *)
(* its shard.                                                              *)
(***************************************************************************)
kLocalBits == kPositionBits - kShardBits
\* the number of values of a std::size_t
kSizeSpan == Pow2(kSizeBits)
kMaxShards == Pow2(kShardBits)
kLocalSpan == Pow2(kLocalBits)

\* x & kLocalMask
AndLocalMask(x) == x % kLocalSpan

shard_count_ == Cardinality(DOMAIN shards_)

per_shard_capacity_ == Cardinality(DOMAIN shards_[0].slots)

NormalizeShardCount(shard_count) ==
    IF shard_count = 0 THEN 1
    ELSE IF shard_count > kMaxShards THEN kMaxShards
    ELSE shard_count

\* the sum is a std::size_t: it wraps at kSizeSpan
ComputePerShardCapacity(shard_count, reserve_hint) ==
    LET total == IF reserve_hint = 0 THEN Pow2(kDefaultReserveBits)
                                     ELSE reserve_hint
        per_shard0 == ((total + shard_count - 1) % kSizeSpan) \div shard_count
        per_shard == IF per_shard0 = 0 THEN 1 ELSE per_shard0
        hard_limit == (kLocalSpan - 1) + 1
    IN  IF per_shard > hard_limit THEN hard_limit ELSE per_shard

\* a shard as the constructor leaves it
NewShard(capacity, hasher) ==
    [slots |-> [p \in 0 .. (capacity - 1) |-> DefaultSlot],
     free_positions |-> <<>>,
     key_to_local |-> FlatInit(capacity, hasher),
     next_unused |-> 0]

\* the shards the constructor ShardedFdKVCache(shard_count, reserve_hint) makes
ShardedFdKVCache(shard_count, reserve_hint, hasher) ==
    LET sc == NormalizeShardCount(shard_count)
        cap == ComputePerShardCapacity(sc, reserve_hint)
    IN  [i \in 0 .. (sc - 1) |-> NewShard(cap, hasher)]

ValidShardId(shard_id) == shard_id < shard_count_

\* a variant of EncodePosition without the shard_id
EncodePositionNoShift(shard_id, local) == AndLocalMask(local)

\* (shard_id << kLocalBits) | (local & kLocalMask), in the width of a position
EncodePosition(shard_id, local) ==
    ((shard_id * kLocalSpan) % kPositionSpan) + AndLocalMask(local)

DecodePosition(handle) ==
    IF IsNull(handle)
    THEN [shard_id |-> kInvalidPosition, local |-> kInvalidPosition]
    ELSE [shard_id |-> Position(handle) \div kLocalSpan,
          local |-> AndLocalMask(Position(handle))]

ShardForKey(key) == sharded_hasher_[key] % shard_count_

\* the local index handed out, and the shard afterwards
\* a variant of AllocateLocal that keeps the last slot of the shard unused
AllocateLocalOneShort(shard) ==
    IF shard.free_positions # <<>>
    THEN [local |-> shard.free_positions[Len(shard.free_positions)],
          shard |-> [shard EXCEPT !.free_positions =
                       SubSeq(@, 1, Len(@) - 1)]]
    ELSE IF shard.next_unused + 1 >= Cardinality(DOMAIN shard.slots)
    THEN [local |-> kInvalidPosition, shard |-> shard]
    ELSE [local |-> shard.next_unused,
          shard |-> [shard EXCEPT !.next_unused = @ + 1]]

\* a variant of AllocateLocal that leaves the cursor where it is
AllocateLocalNoBump(shard) ==
    IF shard.free_positions # <<>>
    THEN [local |-> shard.free_positions[Len(shard.free_positions)],
          shard |-> [shard EXCEPT !.free_positions =
                       SubSeq(@, 1, Len(@) - 1)]]
    ELSE IF shard.next_unused >= Cardinality(DOMAIN shard.slots)
    THEN [local |-> kInvalidPosition, shard |-> shard]
    ELSE [local |-> shard.next_unused, shard |-> shard]

AllocateLocal(shard) ==
    IF shard.free_positions # <<>>
    THEN [local |-> shard.free_positions[Len(shard.free_positions)],
          shard |-> [shard EXCEPT !.free_positions =
                       SubSeq(@, 1, Len(@) - 1)]]
    ELSE IF shard.next_unused >= Cardinality(DOMAIN shard.slots)
    THEN [local |-> kInvalidPosition, shard |-> shard]
    ELSE [local |-> shard.next_unused,
          shard |-> [shard EXCEPT !.next_unused = @ + 1]]

\* a variant of ValidateSlot without the comparison of the generations
ValidateSlotNoGeneration(slot, handle) ==
    IF slot.occupied = 0 THEN FALSE
    ELSE IF slot.type # Type(handle) THEN FALSE
    ELSE TRUE

ValidateSlot(slot, handle) ==
    IF slot.occupied = 0 THEN FALSE
    ELSE IF slot.type # Type(handle) THEN FALSE
    ELSE IF slot.generation # Generation(handle) THEN FALSE
    ELSE TRUE

ShardedBuildHandle(type, generation, shard_id, local) ==
    Make(type, generation, EncodePosition(shard_id, local))

\* the state of the sharded cache as one record, with the result of a call
ShardedOutcome(shards, sz, ret) ==
    [shards_ |-> shards, size_ |-> sz, ret |-> ret]

ShardedUnchanged(ret) == ShardedOutcome(shards_, sharded_size_, ret)

\* Insert and InsertOrAssign of the sharded cache
\* InsertImpl from the result f of key_to_local.Find on
InsertImplAfterFind(type, key, value, assign_if_exists, f) ==
    LET shard_id == ShardForKey(key)
        shard == shards_[shard_id]
    IN
    IF f.found
    THEN LET shard1 == IF assign_if_exists
                       THEN [shard EXCEPT !.slots[f.value] =
                               [@ EXCEPT !.value = value, !.type = type]]
                       ELSE shard
             slot == shard1.slots[f.value]
         IN  ShardedOutcome([shards_ EXCEPT ![shard_id] = shard1],
                            sharded_size_,
                            ShardedBuildHandle(slot.type, slot.generation,
                                               shard_id, f.value))
    ELSE LET a == AllocateLocal(shard) IN
         IF a.local = kInvalidPosition THEN ShardedUnchanged(kNull)
         ELSE LET shard1 == [a.shard EXCEPT !.slots[a.local] =
                               [@ EXCEPT !.key = key, !.value = value,
                                         !.type = type, !.occupied = 1]]
                  r == FlatInsert(shard1.key_to_local, key, a.local)
              IN  IF ~r.ok
                  THEN ShardedOutcome(
                         [shards_ EXCEPT ![shard_id] =
                            [shard1 EXCEPT
                               !.slots[a.local].occupied = 0,
                               !.free_positions = Append(@, a.local),
                               !.key_to_local = r.m]],
                         sharded_size_, kNull)
                  ELSE ShardedOutcome(
                         [shards_ EXCEPT ![shard_id] =
                            [shard1 EXCEPT !.key_to_local = r.m]],
                         sharded_size_ + 1,
                         ShardedBuildHandle(type,
                                            shard1.slots[a.local].generation,
                                            shard_id, a.local))

InsertImpl(type, key, value, assign_if_exists) ==
    InsertImplAfterFind(type, key, value, assign_if_exists,
                        FlatFind(shards_[ShardForKey(key)].key_to_local, key))

ShardedInsertResult(type, key, value) == InsertImpl(type, key, value, FALSE)

\* a variant of InsertOrAssign that passes assign_if_exists = false
ShardedInsertOrAssignResultNoAssign(type, key, value) ==
    InsertImpl(type, key, value, FALSE)

ShardedInsertOrAssignResult(type, key, value) ==
    InsertImpl(type, key, value, TRUE)

\* whether a handle gets past the range checks and ValidateSlot
ShardedValidates(handle) ==
    LET d == DecodePosition(handle) IN
    IF ~ValidShardId(d.shard_id) \/ d.local >= per_shard_capacity_ THEN FALSE
    ELSE ValidateSlot(shards_[d.shard_id].slots[d.local], handle)

\* the slot a handle decodes to
SlotOf(handle) ==
    shards_[DecodePosition(handle).shard_id].slots[DecodePosition(handle).local]

\* Read: whether the reader was called, and the value it was called with
ReadResult(handle) ==
    IF ~ShardedValidates(handle) THEN [ret |-> FALSE, value |-> 0]
    ELSE [ret |-> TRUE, value |-> SlotOf(handle).value]

\* Get(handle, out_value) with a non-null out_value: what Read returns, and
\* the value the reader stores in *out_value
ShardedGetResult(handle) == ReadResult(handle)

\* Write: the writer, a function of the value, is called on the value of the
\* slot
WriteResult(handle, writer) ==
    IF ~ShardedValidates(handle) THEN ShardedUnchanged(FALSE)
    ELSE LET d == DecodePosition(handle) IN
         ShardedOutcome(
           [shards_ EXCEPT ![d.shard_id].slots[d.local].value = writer[@]],
           sharded_size_, TRUE)

UpdateResult(handle, value) == WriteResult(handle, [v \in Values |-> value])

\* v += delta, in the width of a value
AddResult(handle, delta) ==
    WriteResult(handle, [v \in Values |-> (v + delta) % (MaxValue + 1)])

\* a variant of Erase without size_.fetch_sub
ShardedEraseResultNoSizeDec(handle) ==
    IF ~ShardedValidates(handle) THEN ShardedUnchanged(FALSE)
    ELSE LET d == DecodePosition(handle)
             shard == shards_[d.shard_id]
             r == FlatErase(shard.key_to_local, shard.slots[d.local].key)
         IN  IF ~r.ok THEN ShardedUnchanged(FALSE)
             ELSE ShardedOutcome(
                    [shards_ EXCEPT ![d.shard_id] =
                       [shard EXCEPT
                          !.key_to_local = r.m,
                          !.slots[d.local] =
                             [@ EXCEPT !.occupied = 0, !.type = 0,
                                       !.generation = NextGeneration(@)],
                          !.free_positions = Append(@, d.local)]],
                    sharded_size_, TRUE)

ShardedEraseResult(handle) ==
    IF ~ShardedValidates(handle) THEN ShardedUnchanged(FALSE)
    ELSE LET d == DecodePosition(handle)
             shard == shards_[d.shard_id]
             r == FlatErase(shard.key_to_local, shard.slots[d.local].key)
         IN  IF ~r.ok THEN ShardedUnchanged(FALSE)
             ELSE ShardedOutcome(
                    [shards_ EXCEPT ![d.shard_id] =
                       [shard EXCEPT
                          !.key_to_local = r.m,
                          !.slots[d.local] =
                             [@ EXCEPT !.occupied = 0, !.type = 0,
                                       !.generation = NextGeneration(@)],
                          !.free_positions = Append(@, d.local)]],
                    sharded_size_ - 1, TRUE)

ShardedFindHandleResult(key) ==
    LET shard_id == ShardForKey(key)
        shard == shards_[shard_id]
        f == FlatFind(shard.key_to_local, key)
    IN  IF ~f.found THEN kNull
        ELSE ShardedBuildHandle(shard.slots[f.value].type,
                                shard.slots[f.value].generation,
                                shard_id, f.value)

(***************************************************************************)
(* The client's calls.  Each action is one call of a public method: it     *)
(* leaves the state the method leaves and records in last the method's     *)
(* name and what it returned (h a handle, ptr a pointer, ok a boolean) and *)
(* in last.found whether the method found its key in the index.  The       *)
(* arguments of a call are not recorded, but for the handle a successful    *)
(* Erase took: a claim about the arguments is stated of every call the     *)
(* client could make in a state.                                           *)
(***************************************************************************)
\* last.retyped: InsertOrAssign found its key stored with another type
NoCall == [op |-> "none", h |-> 0, ptr |-> <<>>, ok |-> FALSE, found |-> FALSE,
           retyped |-> FALSE]

\* Hash is a template parameter: any function of the key
HashFunctions == [Keys -> 0 .. MaxHash]

\* the hash function the cache is checked with: the keys spread over
\* 0..MaxHash, so that some keys share a bucket and some do not
CacheHashFunctions == {[k \in Keys |-> k % (MaxHash + 1)]}

Commit(r) ==
    /\ slots_' = r.slots_
    /\ free_positions_' = r.free_positions_
    /\ key_to_position_' = r.key_to_position_
    /\ next_unused_' = r.next_unused_
    /\ size_' = r.size_

\* the state after the constructor FdKVCache(n)
Constructed(n, hasher) ==
    LET r == Reserve(n, hasher) IN
    /\ slots_ = r.slots_
    /\ free_positions_ = r.free_positions_
    /\ key_to_position_ = r.key_to_position_
    /\ next_unused_ = r.next_unused_
    /\ size_ = r.size_

\* the program has no sharded cache
NoShardedFdKVCache(hasher) ==
    /\ shards_ = <<>>
    /\ sharded_hasher_ = hasher
    /\ sharded_size_ = 0

\* the program has no single-owner cache
NoFdKVCache ==
    /\ slots_ = <<>>
    /\ free_positions_ = <<>>
    /\ key_to_position_ = <<>>
    /\ next_unused_ = 0
    /\ size_ = 0

\* the state after the constructor ShardedFdKVCache(shard_count, reserve_hint)
ShardedConstructed(shard_count, reserve_hint, hasher) ==
    /\ shards_ = ShardedFdKVCache(shard_count, reserve_hint, hasher)
    /\ sharded_hasher_ = hasher
    /\ sharded_size_ = 0

\* the program has no flat index of its own
NoFlatIndexMap ==
    /\ flat_ = <<>>
    /\ ref_ = <<>>

\* the program has one thread, the client
NoThreads ==
    /\ threads_ = <<>>
    /\ mutex_ = <<>>
    /\ sum_ = <<>>

\* the program calls no function on its own
\* no call of the flat index has been made a step at a time
NoProbe == [pc |-> "idle", op |-> "none", key |-> 0, value |-> 0,
            idx |-> 0, i |-> 0, first_deleted |-> kNpos,
            ok |-> FALSE, steps |-> 0,
            absent |-> FALSE, no_empty |-> FALSE, full |-> FALSE,
            reused |-> FALSE]

NoPureCall ==
    /\ call_ = <<>>
    /\ ret_ = <<>>
    /\ probe_ = NoProbe

NoCalls ==
    /\ last = NoCall
    /\ erases = 0
    /\ stale = {}
    /\ issued = {}
    /\ NoThreads
    /\ NoPureCall

\* a program with one FdKVCache
Init ==
    /\ \E n \in 0 .. MaxReserve, hasher \in CacheHashFunctions :
         Constructed(n, hasher) /\ NoShardedFdKVCache(hasher)
    /\ NoFlatIndexMap
    /\ NoCalls

\* a program with one ShardedFdKVCache
InitSharded ==
    /\ \E shard_count \in 0 .. MaxShardCount, reserve_hint \in 0 .. MaxReserve,
          hasher \in CacheHashFunctions :
         ShardedConstructed(shard_count, reserve_hint, hasher)
    /\ NoFdKVCache
    /\ NoFlatIndexMap
    /\ NoCalls

\* the program has a single-owner cache to call
HasFdKVCache == SlotCount > 0

\* the program has a sharded cache to call
HasShardedFdKVCache == shard_count_ > 0

ShardedCommit(r) ==
    /\ shards_' = r.shards_
    /\ sharded_size_' = r.size_
    /\ UNCHANGED sharded_hasher_

InsertCall(type, key, value) ==
    LET r == InsertResult(type, key, value) IN
    /\ Commit(r)
    /\ last' = [NoCall EXCEPT !.op = "Insert", !.h = r.ret,
                              !.found = FlatFind(key_to_position_, key).found]
    /\ UNCHANGED <<erases, shardedVars, otherVars>>

InsertOrAssignCall(type, key, value) ==
    LET r == InsertOrAssignResult(type, key, value) IN
    /\ Commit(r)
    /\ last' = [NoCall EXCEPT !.op = "InsertOrAssign", !.h = r.ret,
                              !.found = FlatFind(key_to_position_, key).found,
                              !.retyped = /\ FindHandleResult(key) # kNull
                                          /\ Type(FindHandleResult(key)) # type]
    /\ UNCHANGED <<erases, shardedVars, otherVars>>

GetCall(handle) ==
    /\ UNCHANGED cacheVars
    /\ last' = [NoCall EXCEPT !.op = "Get", !.ptr = GetResult(handle)]
    /\ UNCHANGED <<erases, shardedVars, otherVars>>

\* Erase, in a run of at most limit successful calls of it
EraseCallUpTo(handle, limit) ==
    LET r == EraseResult(handle) IN
    /\ r.ret => erases < limit
    /\ Commit(r)
    /\ last' = [NoCall EXCEPT !.op = "Erase", !.ok = r.ret,
                              !.h = IF r.ret THEN handle ELSE kNull]
    /\ erases' = IF r.ret THEN erases + 1 ELSE erases
    /\ UNCHANGED <<shardedVars, otherVars>>

EraseCall(handle) == EraseCallUpTo(handle, MaxErases)

FindHandleCall(key) ==
    /\ UNCHANGED cacheVars
    /\ last' = [NoCall EXCEPT !.op = "FindHandle",
                              !.h = FindHandleResult(key),
                              !.found = FlatFind(key_to_position_, key).found]
    /\ UNCHANGED <<erases, shardedVars, otherVars>>

\* the calls of the sharded cache
ShardedInsertCall(type, key, value) ==
    LET r == ShardedInsertResult(type, key, value) IN
    /\ ShardedCommit(r)
    /\ last' = [NoCall EXCEPT !.op = "ShardedInsert", !.h = r.ret]
    /\ UNCHANGED <<erases, cacheVars, otherVars>>

ShardedInsertOrAssignCall(type, key, value) ==
    LET r == ShardedInsertOrAssignResult(type, key, value) IN
    /\ ShardedCommit(r)
    /\ last' = [NoCall EXCEPT !.op = "ShardedInsertOrAssign", !.h = r.ret,
                              !.retyped =
                                 /\ ShardedFindHandleResult(key) # kNull
                                 /\ Type(ShardedFindHandleResult(key)) # type]
    /\ UNCHANGED <<erases, cacheVars, otherVars>>

ShardedEraseCallUpTo(handle, limit) ==
    LET r == ShardedEraseResult(handle) IN
    /\ r.ret => erases < limit
    /\ ShardedCommit(r)
    /\ last' = [NoCall EXCEPT !.op = "ShardedErase", !.ok = r.ret,
                              !.h = IF r.ret THEN handle ELSE kNull]
    /\ erases' = IF r.ret THEN erases + 1 ELSE erases
    /\ UNCHANGED <<cacheVars, otherVars>>

Insert == \E type \in Types, key \in Keys, value \in Values :
              InsertCall(type, key, value) /\ UNCHANGED <<stale, issued, sum_>>

InsertOrAssign == \E type \in Types, key \in Keys, value \in Values :
              InsertOrAssignCall(type, key, value) /\ UNCHANGED <<stale, issued, sum_>>

Get == \E handle \in Handles : GetCall(handle) /\ UNCHANGED <<stale, issued, sum_>>

Erase == \E handle \in Handles : EraseCall(handle) /\ UNCHANGED <<stale, issued, sum_>>

FindHandle == \E key \in Keys : FindHandleCall(key) /\ UNCHANGED <<stale, issued, sum_>>

Next == Insert \/ InsertOrAssign \/ Get \/ Erase \/ FindHandle

Spec == Init /\ [][Next]_vars

(***************************************************************************)
(* Long runs: a client that inserts, assigns and erases until one slot has *)
(* been through every generation, and remembers some of the handles it     *)
(* used.  The value stored plays no part in a handle, so these runs store  *)
(* the value 0; a run has at most kMaxGeneration successful erases.  The   *)
(* program of SpecStale has one cache, of either kind.                     *)
(***************************************************************************)
WrapErases == kMaxGeneration

\* the keys of a long run
LongKeys == 0 .. MaxLongKey

\* the remembered handles after one more successful Erase at position pos:
\* n counts the erases of a handle's position since it was remembered
Bumped(records, pos) ==
    {IF Position(r.h) = pos
       THEN [r EXCEPT !.n = IF @ < kMaxGeneration THEN @ + 1 ELSE @]
       ELSE r : r \in records}

\* a handle the client chooses to remember, if it has room for it
Remembered(records, keep, handle, key) ==
    IF keep /\ handle # kNull /\ Cardinality(records) < MaxHeld
    THEN {[h |-> handle, key |-> key, n |-> 0]}
    ELSE {}

InsertLong == \E type \in Types, key \in LongKeys :
                  /\ HasFdKVCache
                  /\ InsertCall(type, key, 0)
                  /\ UNCHANGED <<stale, issued, sum_>>

InsertOrAssignLong == \E type \in Types, key \in LongKeys :
                  /\ HasFdKVCache
                  /\ InsertOrAssignCall(type, key, 0)
                  /\ UNCHANGED <<stale, issued, sum_>>

\* Erase, the client remembering the handle that Erase accepted
EraseStale ==
    \E handle \in Handles, keep \in BOOLEAN :
      /\ HasFdKVCache
      /\ EraseCallUpTo(handle, WrapErases)
      /\ stale' = IF last'.ok
                  THEN Bumped(stale, Position(handle)) \cup
                       Remembered(stale, keep, handle,
                                  slots_[Position(handle)].key)
                  ELSE stale
      /\ UNCHANGED <<issued, sum_>>

ShardedInsertLong == \E type \in Types, key \in LongKeys :
                  /\ HasShardedFdKVCache
                  /\ ShardedInsertCall(type, key, 0)
                  /\ UNCHANGED <<stale, issued, sum_>>

ShardedInsertOrAssignLong == \E type \in Types, key \in LongKeys :
                  /\ HasShardedFdKVCache
                  /\ ShardedInsertOrAssignCall(type, key, 0)
                  /\ UNCHANGED <<stale, issued, sum_>>

ShardedEraseStale ==
    \E handle \in Handles, keep \in BOOLEAN :
      /\ HasShardedFdKVCache
      /\ ShardedEraseCallUpTo(handle, WrapErases)
      /\ stale' = IF last'.ok
                  THEN Bumped(stale, Position(handle)) \cup
                       Remembered(stale, keep, handle, SlotOf(handle).key)
                  ELSE stale
      /\ UNCHANGED <<issued, sum_>>

\* a program with a cache of either kind
InitStale == Init \/ InitSharded

NextStale ==
    \/ InsertLong \/ InsertOrAssignLong \/ EraseStale
    \/ ShardedInsertLong \/ ShardedInsertOrAssignLong \/ ShardedEraseStale

SpecStale == InitStale /\ [][NextStale]_vars

\* Insert, the client remembering the handle that Insert returned
InsertIssued ==
    \E type \in Types, key \in LongKeys, keep \in BOOLEAN :
      /\ InsertCall(type, key, 0)
      /\ issued' = issued \cup Remembered(issued, keep, last'.h, key)
      /\ UNCHANGED <<stale, sum_>>

EraseIssued ==
    \E handle \in Handles :
      /\ EraseCallUpTo(handle, WrapErases)
      /\ issued' = IF last'.ok THEN Bumped(issued, Position(handle))
                               ELSE issued
      /\ UNCHANGED <<stale, sum_>>

NextIssued == InsertIssued \/ EraseIssued

SpecIssued == Init /\ [][NextIssued]_vars

(***************************************************************************)
(* A FlatIndexMap used on its own: a client initialises it with            *)
(* max_entries and calls Insert, Erase and Find with any keys and values.  *)
(* ref_ is the map it stands for, kept as a function from the keys to the  *)
(* value of a key, as <<value>>, or Absent, with the same logical          *)
(* capacity.                                                               *)
(***************************************************************************)
Absent == <<>>

\* the keys a reference map holds
RefKeys(ref) == {k \in DOMAIN ref : ref[k] # Absent}

RefInsert(ref, max_entries, key, value) ==
    IF ref[key] # Absent \/ Cardinality(RefKeys(ref)) < max_entries
    THEN [ref EXCEPT ![key] = <<value>>]
    ELSE ref

RefErase(ref, key) == [ref EXCEPT ![key] = Absent]

RefFind(ref, key) ==
    IF ref[key] = Absent THEN NotFound
    ELSE [found |-> TRUE, value |-> ref[key][1]]

\* a program with one FlatIndexMap, after Init(max_entries)
InitFlat ==
    /\ \E max_entries \in 0 .. MaxEntries, hasher \in HashFunctions :
         /\ flat_ = FlatInit(max_entries, hasher)
         /\ NoShardedFdKVCache(hasher)
    /\ ref_ = [k \in Keys |-> Absent]
    /\ NoFdKVCache
    /\ NoCalls

IndexInsert ==
    \E key \in Keys, value \in Values :
      LET r == FlatInsert(flat_, key, value) IN
      /\ flat_' = r.m
      /\ ref_' = RefInsert(ref_, flat_.max_entries_, key, value)
      /\ last' = [NoCall EXCEPT !.op = "IndexInsert", !.ok = r.ok,
                                !.found = FlatFind(flat_, key).found]
      /\ UNCHANGED <<pureVars, cacheVars, shardedVars, stale, issued, erases,
                   threadVars, sum_>>

IndexErase ==
    \E key \in Keys :
      LET r == FlatErase(flat_, key) IN
      /\ flat_' = r.m
      /\ ref_' = RefErase(ref_, key)
      /\ last' = [NoCall EXCEPT !.op = "IndexErase", !.ok = r.ok,
                                !.found = FlatFind(flat_, key).found]
      /\ UNCHANGED <<pureVars, cacheVars, shardedVars, stale, issued, erases,
                   threadVars, sum_>>

IndexFind ==
    \E key \in Keys :
      LET f == FlatFind(flat_, key) IN
      /\ last' = [NoCall EXCEPT !.op = "IndexFind", !.ok = f.found,
                                !.h = f.value, !.found = f.found]
      /\ UNCHANGED <<flatVars, pureVars, cacheVars, shardedVars, stale, issued, erases,
                   threadVars, sum_>>

NextFlat == IndexInsert \/ IndexErase \/ IndexFind

SpecFlat == InitFlat /\ [][NextFlat]_vars

\* the key is in the index of its shard
ShardedPresent(key) ==
    FlatFind(shards_[ShardForKey(key)].key_to_local, key).found

(***************************************************************************)
(* Threads on one ShardedFdKVCache.  A call is a sequence of steps of its  *)
(* thread: the range check of the handle, which reads shard_count_ and     *)
(* per_shard_capacity_ only; the constructor of the lock on Shard::mutex,  *)
(* which blocks; the body; the destructor of the lock at the return.  The  *)
(* body of Write is two steps, the validation with the load of slot.value  *)
(* and the store of what the writer makes of it, and so is the body of     *)
(* Read, the validation and the call of the reader.                        *)
(***************************************************************************)
Threads == 1 .. MaxThreads

\* the types and the values the threads insert with
ThreadTypes == {1}

\* a thread outside every call
Idle == [pc |-> "idle", op |-> "none", shard |-> 0, h |-> 0, type |-> 0,
         key |-> 0, value |-> 0, tmp |-> 0, f |-> NotFound]

\* a std::shared_mutex nobody holds
NoLock == [unique |-> {}, shared |-> {}]

\* a variant of LockKind, Write taking a shared lock
LockKindWriteShared(op) ==
    IF op \in {"Read", "FindHandle", "Update", "Add"} THEN "shared"
    ELSE "unique"

\* a variant of LockKind, Erase taking a shared lock
LockKindEraseShared(op) ==
    IF op \in {"Read", "FindHandle", "Erase"} THEN "shared" ELSE "unique"

\* the lock a method constructs: std::shared_lock or std::unique_lock
LockKind(op) ==
    IF op \in {"Read", "FindHandle"} THEN "shared" ELSE "unique"

\* the methods whose body assigns to the shard
Mutates(op) == op \in {"Insert", "InsertOrAssign", "Erase", "Update", "Add"}

\* a variant of CanLock, a mutex that never blocks
CanLockAlways(m, kind) == TRUE

\* whether lock() or lock_shared() of std::shared_mutex returns
CanLock(m, kind) ==
    IF kind = "unique" THEN m.unique = {} /\ m.shared = {}
    ELSE m.unique = {}

Locked(m, kind, t) ==
    IF kind = "unique" THEN [m EXCEPT !.unique = @ \cup {t}]
    ELSE [m EXCEPT !.shared = @ \cup {t}]

Unlocked(m, t) == [unique |-> m.unique \ {t}, shared |-> m.shared \ {t}]

\* the writer Update and Add pass to Write
WriterOf(op, value) ==
    IF op = "Add" THEN [v \in Values |-> (v + value) % (MaxValue + 1)]
    ELSE [v \in Values |-> value]

\* the handles a thread calls with: kNull, and for every slot the handle of
\* its generation, which is live while the slot is occupied
ThreadHandles ==
    {kNull} \cup
    {h \in Handles :
       /\ Type(h) \in ThreadTypes
       /\ ValidShardId(DecodePosition(h).shard_id)
       /\ DecodePosition(h).local < per_shard_capacity_
       /\ Generation(h) = SlotOf(h).generation}

\* a program with one ShardedFdKVCache and MaxThreads threads
InitThreads ==
    /\ \E shard_count \in 1 .. kMaxShards, hasher \in CacheHashFunctions :
         ShardedConstructed(shard_count, MaxReserve, hasher)
    /\ NoFdKVCache
    /\ NoFlatIndexMap
    /\ last = NoCall
    /\ erases = 0
    /\ stale = {}
    /\ issued = {}
    /\ threads_ = [t \in Threads |-> Idle]
    /\ mutex_ = [i \in DOMAIN shards_ |-> NoLock]
    /\ sum_ = <<>>
    /\ NoPureCall

\* the return of a call of a thread: whether it returned true, or a handle
\* other than kNull
Returned(t, ok) ==
    /\ threads_' = [threads_ EXCEPT ![t] = Idle]
    /\ last' = [NoCall EXCEPT !.op = "Thread", !.ok = ok]

\* a variant of the return that leaves the mutex locked
ReleaseNothing(t) == mutex_' = mutex_

\* the destructor of the lock
Release(t) ==
    mutex_' = [mutex_ EXCEPT ![threads_[t].shard] = Unlocked(@, t)]

\* Erase, Read, Update or Add up to the range check
CallByHandle(t, op, handle, value) ==
    /\ threads_[t].pc = "idle"
    /\ LET d == DecodePosition(handle) IN
       IF ~ValidShardId(d.shard_id) \/ d.local >= per_shard_capacity_
       THEN Returned(t, FALSE)
       ELSE /\ threads_' = [threads_ EXCEPT ![t] =
                  [Idle EXCEPT !.pc = "wait", !.op = op,
                               !.shard = d.shard_id, !.h = handle,
                               !.value = value]]
            /\ UNCHANGED last
    /\ UNCHANGED <<mutex_, shardedVars, cacheVars, flatVars, pureVars, stale, issued>>

\* Insert, InsertOrAssign or FindHandle up to ShardForKey
CallByKey(t, op, type, key, value) ==
    /\ threads_[t].pc = "idle"
    /\ threads_' = [threads_ EXCEPT ![t] =
          [Idle EXCEPT !.pc = "wait", !.op = op, !.shard = ShardForKey(key),
                       !.type = type, !.key = key, !.value = value]]
    /\ UNCHANGED <<last, mutex_, shardedVars, cacheVars, flatVars, pureVars, stale,
                   issued, erases, sum_>>

ThreadInsert(t) ==
    \E type \in ThreadTypes, key \in LongKeys :
      CallByKey(t, "Insert", type, key, 0)

ThreadInsertOrAssign(t) ==
    \E type \in ThreadTypes, key \in LongKeys :
      CallByKey(t, "InsertOrAssign", type, key, MaxValue)

ThreadFindHandle(t) == \E key \in LongKeys : CallByKey(t, "FindHandle", 0, key, 0)

\* a run has at most MaxThreadErases calls of Erase
ThreadErase(t) ==
    \E handle \in ThreadHandles :
      /\ erases < MaxThreadErases
      /\ erases' = erases + 1
      /\ CallByHandle(t, "Erase", handle, 0)
      /\ UNCHANGED sum_

ThreadRead(t) ==
    \E handle \in ThreadHandles :
      CallByHandle(t, "Read", handle, 0) /\ UNCHANGED <<erases, sum_>>

ThreadUpdate(t) ==
    \E handle \in ThreadHandles :
      CallByHandle(t, "Update", handle, 0) /\ UNCHANGED <<erases, sum_>>

ThreadAdd(t) ==
    \E handle \in ThreadHandles :
      CallByHandle(t, "Add", handle, MaxValue) /\ UNCHANGED <<erases, sum_>>

\* std::unique_lock lock(shard.mutex) or std::shared_lock lock(shard.mutex)
ThreadLock(t) ==
    /\ threads_[t].pc = "wait"
    /\ CanLock(mutex_[threads_[t].shard], LockKind(threads_[t].op))
    /\ mutex_' = [mutex_ EXCEPT ![threads_[t].shard] =
                    Locked(@, LockKind(threads_[t].op), t)]
    /\ threads_' = [threads_ EXCEPT ![t].pc = "in"]
    /\ UNCHANGED <<last, shardedVars, cacheVars, flatVars, pureVars, stale, issued,
                   erases, sum_>>

\* the body of InsertImpl
ThreadInsertBody(t) ==
    LET c == threads_[t]
        r == InsertImpl(c.type, c.key, c.value, c.op = "InsertOrAssign")
    IN
    /\ c.pc = "in" /\ c.op \in {"Insert", "InsertOrAssign"}
    /\ ShardedCommit(r)
    /\ Release(t)
    /\ Returned(t, r.ret # kNull)
    /\ UNCHANGED <<cacheVars, flatVars, pureVars, stale, issued, erases, sum_>>

\* the body of Erase
ThreadEraseBody(t) ==
    LET c == threads_[t]
        r == ShardedEraseResult(c.h)
    IN
    /\ c.pc = "in" /\ c.op = "Erase"
    /\ ShardedCommit(r)
    /\ Release(t)
    /\ Returned(t, r.ret)
    /\ UNCHANGED <<cacheVars, flatVars, pureVars, stale, issued, erases, sum_>>

\* the body of FindHandle
ThreadFindHandleBody(t) ==
    LET c == threads_[t] IN
    /\ c.pc = "in" /\ c.op = "FindHandle"
    /\ Release(t)
    /\ Returned(t, ShardedFindHandleResult(c.key) # kNull)
    /\ UNCHANGED <<shardedVars, cacheVars, flatVars, pureVars, stale, issued, erases,
                   sum_>>

\* the body of Read up to the call of the reader
ThreadReadValidate(t) ==
    LET c == threads_[t]
        d == DecodePosition(c.h)
    IN
    /\ c.pc = "in" /\ c.op = "Read"
    /\ IF ValidateSlot(shards_[d.shard_id].slots[d.local], c.h)
       THEN /\ threads_' = [threads_ EXCEPT ![t].pc = "rmw"]
            /\ UNCHANGED <<last, mutex_>>
       ELSE /\ Release(t)
            /\ Returned(t, FALSE)
    /\ UNCHANGED <<shardedVars, cacheVars, flatVars, pureVars, stale, issued, erases,
                   sum_>>

\* the call of the reader, which loads slot.value, and the return of Read
ThreadReadBody(t) ==
    LET c == threads_[t] IN
    /\ c.pc = "rmw" /\ c.op = "Read"
    /\ Release(t)
    /\ Returned(t, TRUE)
    /\ UNCHANGED <<shardedVars, cacheVars, flatVars, pureVars, stale, issued, erases,
                   sum_>>

\* the body of Write up to the call of the writer, which loads slot.value
ThreadWriteValidate(t) ==
    LET c == threads_[t]
        d == DecodePosition(c.h)
    IN
    /\ c.pc = "in" /\ c.op \in {"Update", "Add"}
    /\ IF ValidateSlot(shards_[d.shard_id].slots[d.local], c.h)
       THEN /\ threads_' = [threads_ EXCEPT ![t].pc = "rmw",
                                            ![t].tmp = SlotOf(c.h).value]
            /\ UNCHANGED <<last, mutex_>>
       ELSE /\ Release(t)
            /\ Returned(t, FALSE)
    /\ UNCHANGED <<shardedVars, cacheVars, flatVars, pureVars, stale, issued, erases,
                   sum_>>

\* a variant of the store that reaches the slot of every shard
StoreValueInEveryShard(handle, value) ==
    LET d == DecodePosition(handle) IN
    [i \in DOMAIN shards_ |->
       [shards_[i] EXCEPT !.slots[d.local].value = value]]

\* the shards after the store of a value through the writer's reference
StoreValue(handle, value) ==
    LET d == DecodePosition(handle) IN
    [shards_ EXCEPT ![d.shard_id].slots[d.local].value = value]

\* the store of the writer, and the return of Write
WriteStore(t) ==
    LET c == threads_[t] IN
    /\ c.pc = "rmw" /\ c.op \in {"Update", "Add"}
    /\ shards_' = StoreValue(c.h, WriterOf(c.op, c.value)[c.tmp])
    /\ Release(t)
    /\ Returned(t, TRUE)
    /\ UNCHANGED <<sharded_hasher_, sharded_size_, cacheVars, flatVars, pureVars,
                   stale, issued, erases>>

ThreadWriteStore(t) == WriteStore(t) /\ UNCHANGED sum_

NextThreads ==
    \E t \in Threads :
      \/ ThreadInsert(t) \/ ThreadInsertOrAssign(t) \/ ThreadFindHandle(t)
      \/ ThreadErase(t) \/ ThreadRead(t) \/ ThreadUpdate(t) \/ ThreadAdd(t)
      \/ ThreadLock(t)
      \/ ThreadInsertBody(t) \/ ThreadEraseBody(t)
      \/ ThreadFindHandleBody(t)
      \/ ThreadReadValidate(t) \/ ThreadReadBody(t)
      \/ ThreadWriteValidate(t) \/ ThreadWriteStore(t)

SpecThreads == InitThreads /\ [][NextThreads]_vars

\* a step of a thread inside a call, after it has the lock
ThreadBody(t) ==
    \/ ThreadInsertBody(t) \/ ThreadEraseBody(t) \/ ThreadFindHandleBody(t)
    \/ ThreadReadValidate(t) \/ ThreadReadBody(t)
    \/ ThreadWriteValidate(t) \/ ThreadWriteStore(t)

\* the threads are scheduled, the callbacks return, and the mutex is fair: a
\* thread that can lock it again and again does lock it
ThreadsFair ==
    \A t \in Threads : WF_vars(ThreadBody(t)) /\ SF_vars(ThreadLock(t))

\* the threads calling one method of each kind: by key and by handle, under
\* the exclusive and under the shared lock
NextCalls ==
    \E t \in Threads :
      \/ ThreadInsert(t) \/ ThreadFindHandle(t)
      \/ ThreadErase(t) \/ ThreadRead(t) \/ ThreadUpdate(t)
      \/ ThreadLock(t)
      \/ ThreadInsertBody(t) \/ ThreadEraseBody(t)
      \/ ThreadFindHandleBody(t)
      \/ ThreadReadValidate(t) \/ ThreadReadBody(t)
      \/ ThreadWriteValidate(t) \/ ThreadWriteStore(t)

SpecCallsFair == InitThreads /\ [][NextCalls]_vars /\ ThreadsFair

(***************************************************************************)
(* Threads that call Add and Read only, as the update benchmark does: the  *)
(* client fills the cache while no thread is in a call, and the threads    *)
(* call with the handles that are live.  sum_ keeps, for every position    *)
(* filled, what the value has to be.                                       *)
(***************************************************************************)
Quiescent == \A t \in Threads : threads_[t].pc = "idle"

\* the slot at a position [ shard_id | local ]
SlotAt(pos) == shards_[pos \div kLocalSpan].slots[AndLocalMask(pos)]

LiveHandles == {h \in ThreadHandles : ShardedValidates(h)}

\* Insert by the client, between the runs of the threads
SetupInsert ==
    \E type \in ThreadTypes, key \in LongKeys, value \in Values :
      LET r == ShardedInsertResult(type, key, value) IN
      /\ Quiescent
      /\ ShardedInsertCall(type, key, value)
      /\ sum_' = IF r.ret = kNull \/ ShardedPresent(key) THEN sum_
                 ELSE [p \in DOMAIN sum_ \cup {Position(r.ret)} |->
                         IF p = Position(r.ret)
                         THEN [sum |-> value, adds |-> 0, raced |-> FALSE]
                         ELSE sum_[p]]
      /\ UNCHANGED <<stale, issued>>

AddLive(t) ==
    \E handle \in LiveHandles :
      CallByHandle(t, "Add", handle, MaxValue) /\ UNCHANGED <<erases, sum_>>

ReadLive(t) ==
    \E handle \in LiveHandles :
      CallByHandle(t, "Read", handle, 0) /\ UNCHANGED <<erases, sum_>>

\* the store of Add, counted: raced tells that another thread was waiting
\* to add to the same slot
AddStore(t) ==
    LET c == threads_[t] IN
    /\ WriteStore(t)
    /\ sum_' = [sum_ EXCEPT ![Position(c.h)] =
                  [sum |-> (@.sum + c.value) % (MaxValue + 1),
                   adds |-> IF @.adds < MaxAdds THEN @.adds + 1 ELSE @.adds,
                   raced |-> @.raced \/
                             \E t2 \in Threads \ {t} :
                               /\ threads_[t2].pc = "wait"
                               /\ threads_[t2].op = "Add"
                               /\ threads_[t2].h = c.h]]

NextAdd ==
    \/ SetupInsert
    \/ \E t \in Threads :
         \/ AddLive(t) \/ ReadLive(t)
         \/ ThreadLock(t)
         \/ ThreadReadValidate(t) \/ ThreadReadBody(t)
         \/ ThreadWriteValidate(t) \/ AddStore(t)

SpecAdd == InitThreads /\ [][NextAdd]_vars

(***************************************************************************)
(* Threads that race to Insert and to Erase.  The body of InsertImpl is    *)
(* two steps here, key_to_local.Find and the rest, so that another thread  *)
(* could run between them if the mutex let it.  issued keeps the handles   *)
(* Insert returned since the last Erase that returned true.                *)
(***************************************************************************)
\* the body of InsertImpl up to the result of Find
RaceInsertFind(t) ==
    LET c == threads_[t] IN
    /\ c.pc = "in" /\ c.op = "Insert"
    /\ threads_' = [threads_ EXCEPT
          ![t].pc = "found",
          ![t].f = FlatFind(shards_[c.shard].key_to_local, c.key)]
    /\ UNCHANGED <<last, mutex_, shardedVars, cacheVars, flatVars, pureVars, stale,
                   issued, erases, sum_>>

\* the rest of the body of InsertImpl, and its return
RaceInsertStore(t) ==
    LET c == threads_[t]
        r == InsertImplAfterFind(c.type, c.key, c.value, FALSE, c.f)
    IN
    /\ c.pc = "found"
    /\ ShardedCommit(r)
    /\ Release(t)
    /\ Returned(t, r.ret # kNull)
    /\ issued' = IF r.ret = kNull THEN issued
                 ELSE issued \cup {[h |-> r.ret, key |-> c.key, n |-> 0]}
    /\ UNCHANGED <<cacheVars, flatVars, pureVars, stale, erases, sum_>>

\* the body of Erase, the handles returned before it forgotten
RaceEraseBody(t) ==
    LET c == threads_[t]
        r == ShardedEraseResult(c.h)
    IN
    /\ c.pc = "in" /\ c.op = "Erase"
    /\ ShardedCommit(r)
    /\ Release(t)
    /\ Returned(t, r.ret)
    /\ issued' = IF r.ret THEN {} ELSE issued
    /\ UNCHANGED <<cacheVars, flatVars, pureVars, stale, erases, sum_>>

NextRace ==
    \E t \in Threads :
      \/ ThreadInsert(t) \/ ThreadErase(t)
      \/ ThreadLock(t)
      \/ RaceInsertFind(t) \/ RaceInsertStore(t) \/ RaceEraseBody(t)

SpecRace == InitThreads /\ [][NextRace]_vars

(***************************************************************************)
(* The functions that read no state, each called once with arguments drawn *)
(* from a bounded set: the constructor of ShardedFdKVCache, of which the   *)
(* two counts it computes are kept, and FdToken::Make followed by the      *)
(* three extractors.                                                       *)
(***************************************************************************)
\* the values of a std::size_t
SizeT == 0 .. (kSizeSpan - 1)

\* the generations Make is called with: std::uint32_t is wider than the
\* generation field, here by one bit
GenerationArgs == 0 .. (2 * kGenerationSpan - 1)

ConstructorCalls ==
    {[fn |-> "ShardedFdKVCache", args |-> <<shard_count, reserve_hint>>] :
        shard_count \in 0 .. MaxShardCount, reserve_hint \in SizeT}

MakeCalls ==
    {[fn |-> "Make", args |-> <<type, generation, position>>] :
        type \in Types, generation \in GenerationArgs,
        position \in 0 .. (kPositionSpan - 1)}

\* a program that is about to call one of the functions
InitPure ==
    /\ call_ \in ConstructorCalls \cup MakeCalls
    /\ ret_ = <<>>
    /\ probe_ = NoProbe
    /\ \E hasher \in CacheHashFunctions : NoShardedFdKVCache(hasher)
    /\ NoFdKVCache
    /\ NoFlatIndexMap
    /\ last = NoCall
    /\ erases = 0
    /\ stale = {}
    /\ issued = {}
    /\ NoThreads

\* shard_count_ and per_shard_capacity_ as the constructor initialises them
Construct ==
    /\ call_.fn = "ShardedFdKVCache"
    /\ ret_ = <<>>
    /\ LET shard_count == NormalizeShardCount(call_.args[1])
       IN  ret_' = <<shard_count,
                     ComputePerShardCapacity(shard_count, call_.args[2])>>
    /\ UNCHANGED <<call_, probe_, cacheVars, shardedVars, flatVars, threadVars,
                   last, stale, issued, erases, sum_>>

\* Make, then Type, Generation and Position of the handle it returned
MakeAndExtract ==
    /\ call_.fn = "Make"
    /\ ret_ = <<>>
    /\ LET token == Make(call_.args[1], call_.args[2], call_.args[3])
       IN  ret_' = <<token, Type(token), Generation(token), Position(token)>>
    /\ UNCHANGED <<call_, probe_, cacheVars, shardedVars, flatVars, threadVars,
                   last, stale, issued, erases, sum_>>

NextPure == Construct \/ MakeAndExtract

SpecPure == InitPure /\ [][NextPure]_vars

(***************************************************************************)
(* A client of a ShardedFdKVCache that inserts any key, as the dataset of  *)
(* main.cpp does: it keeps the handle Insert returned, kNull or not, and   *)
(* calls Read, Get or Add with it.  call_ keeps the arguments the cache    *)
(* was constructed with; last.h of a Read, Get or Add is the handle the    *)
(* call was made with.                                                     *)
(***************************************************************************)
InitDataset ==
    /\ \E shard_count \in 0 .. MaxShardCount, reserve_hint \in 0 .. MaxReserve,
          hasher \in CacheHashFunctions :
         /\ ShardedConstructed(shard_count, reserve_hint, hasher)
         /\ call_ = [fn |-> "ShardedFdKVCache",
                     args |-> <<shard_count, reserve_hint>>]
    /\ ret_ = <<>>
    /\ probe_ = NoProbe
    /\ NoFdKVCache
    /\ NoFlatIndexMap
    /\ last = NoCall
    /\ erases = 0
    /\ stale = {}
    /\ issued = {}
    /\ NoThreads

\* the value stored plays no part in the capacity: the dataset stores 0
DatasetInsert ==
    \E type \in Types, key \in Keys :
      /\ ShardedInsertCall(type, key, 0)
      /\ UNCHANGED <<stale, issued, sum_>>

\* Erase of an entry that is live
DatasetErase ==
    \E handle \in {h \in Handles : ShardedValidates(h)} :
      /\ ShardedEraseCallUpTo(handle, MaxErases)
      /\ UNCHANGED <<stale, issued, sum_>>

\* Read with the handle the Insert before it returned
DatasetRead ==
    /\ last.op = "ShardedInsert"
    /\ last' = [NoCall EXCEPT !.op = "ShardedRead", !.h = last.h,
                              !.ok = ReadResult(last.h).ret]
    /\ UNCHANGED <<shardedVars, cacheVars, otherVars, stale, issued, erases,
                   sum_>>

\* Get with the handle the Insert before it returned
DatasetGet ==
    /\ last.op = "ShardedInsert"
    /\ last' = [NoCall EXCEPT !.op = "ShardedGet", !.h = last.h,
                              !.ok = ShardedGetResult(last.h).ret]
    /\ UNCHANGED <<shardedVars, cacheVars, otherVars, stale, issued, erases,
                   sum_>>

\* Add with the handle the Insert before it returned
DatasetAdd ==
    /\ last.op = "ShardedInsert"
    /\ LET r == AddResult(last.h, MaxValue) IN
       /\ ShardedCommit(r)
       /\ last' = [NoCall EXCEPT !.op = "ShardedAdd", !.h = last.h,
                                 !.ok = r.ret]
    /\ UNCHANGED <<cacheVars, otherVars, stale, issued, erases, sum_>>

NextDataset ==
    DatasetInsert \/ DatasetErase \/ DatasetRead \/ DatasetGet \/ DatasetAdd

SpecDataset == InitDataset /\ [][NextDataset]_vars

(***************************************************************************)
(* The probe loops of FlatIndexMap, one iteration at a time.  probe_ keeps *)
(* the call (op, key, value), the locals idx, i and first_deleted of the   *)
(* for loop, and after the return: ok, the value returned; steps, the      *)
(* number of iterations that were entered; and of the table as the call    *)
(* found it: absent, no entry held the key; no_empty, no entry was Empty;  *)
(* full, size was max_entries; and reused, whether Insert stored the key   *)
(* into a Deleted entry.                                                   *)
(***************************************************************************)
ProbeOps == {"Find", "Insert", "Erase"}

\* the entry of the loop: idx = ProbeStart(key), first_deleted = kNpos, i = 0
ProbeCall ==
    \E op \in ProbeOps, key \in Keys, value \in Values :
      /\ probe_.pc = "idle"
      /\ TableSize(flat_) # 0
      /\ op # "Insert" => value = 0
      /\ probe_' = [NoProbe EXCEPT
                      !.pc = "loop", !.op = op, !.key = key, !.value = value,
                      !.idx = ProbeStart(flat_, key),
                      !.absent = \A n \in DOMAIN flat_.table_ :
                                   ~(flat_.table_[n].state = kOccupied
                                       /\ flat_.table_[n].key = key),
                      !.no_empty = \A n \in DOMAIN flat_.table_ :
                                     flat_.table_[n].state # kEmpty,
                      !.full = (flat_.size_ = flat_.max_entries_)]
      /\ UNCHANGED <<flat_, ref_, call_, ret_, cacheVars, shardedVars,
                     threadVars, last, stale, issued, erases, sum_>>

\* a variant of ProbeAdvance that leaves the loop counter alone
ProbeAdvanceUncounted(p, first_deleted) ==
    [p EXCEPT !.idx = NextIndex(flat_, p.idx),
              !.first_deleted = first_deleted,
              !.steps = p.i + 1]

\* idx = NextIndex(idx) and ++i at the end of an iteration
ProbeAdvance(p, first_deleted) ==
    [p EXCEPT !.idx = NextIndex(flat_, p.idx),
              !.i = p.i + 1,
              !.first_deleted = first_deleted,
              !.steps = p.i + 1]

\* a return of the call, which leaves the map m and the reference map ref
ProbeReturn(ok, m, ref, steps, reused) ==
    /\ probe_' = [probe_ EXCEPT !.pc = "idle", !.ok = ok, !.steps = steps,
                                !.reused = reused, !.value = 0, !.idx = 0,
                                !.i = 0, !.first_deleted = kNpos]
    /\ flat_' = m
    /\ ref_' = ref

ProbeLoops ==
    /\ probe_' = ProbeAdvance(probe_, probe_.first_deleted)
    /\ UNCHANGED <<flat_, ref_>>

\* one iteration of the loop of Find
ProbeFindStep ==
    /\ probe_.pc = "loop" /\ probe_.op = "Find"
    /\ probe_.i < TableSize(flat_)
    /\ LET entry == flat_.table_[probe_.idx] IN
       IF entry.state = kEmpty
       THEN ProbeReturn(FALSE, flat_, ref_, probe_.i + 1, FALSE)
       ELSE IF entry.state = kOccupied /\ entry.key = probe_.key
       THEN ProbeReturn(TRUE, flat_, ref_, probe_.i + 1, FALSE)
       ELSE ProbeLoops
    /\ UNCHANGED <<call_, ret_, cacheVars, shardedVars, threadVars, last,
                   stale, issued, erases, sum_>>

\* a variant of the loop of Insert that stores the key into the first
\* tombstone it meets
ProbeInsertStepAtFirstDeleted ==
    /\ probe_.pc = "loop" /\ probe_.op = "Insert"
    /\ probe_.i < TableSize(flat_)
    /\ LET entry == flat_.table_[probe_.idx]
           r == InsertAt(flat_, probe_.idx, probe_.key, probe_.value)
       IN
       IF entry.state = kEmpty \/ entry.state = kDeleted
       THEN ProbeReturn(r.ok, r.m,
                        IF r.ok THEN [ref_ EXCEPT ![probe_.key] = <<probe_.value>>]
                                ELSE ref_,
                        probe_.i + 1,
                        r.ok /\ entry.state = kDeleted)
       ELSE IF entry.key = probe_.key
       THEN ProbeReturn(TRUE,
                        [flat_ EXCEPT !.table_[probe_.idx].value = probe_.value],
                        [ref_ EXCEPT ![probe_.key] = <<probe_.value>>],
                        probe_.i + 1, FALSE)
       ELSE ProbeLoops
    /\ UNCHANGED <<call_, ret_, cacheVars, shardedVars, threadVars, last,
                   stale, issued, erases, sum_>>

\* one iteration of the loop of Insert
ProbeInsertStep ==
    /\ probe_.pc = "loop" /\ probe_.op = "Insert"
    /\ probe_.i < TableSize(flat_)
    /\ LET entry == flat_.table_[probe_.idx]
           at == IF probe_.first_deleted = kNpos THEN probe_.idx
                                                 ELSE probe_.first_deleted
           r == InsertAt(flat_, at, probe_.key, probe_.value)
       IN
       IF entry.state = kEmpty
       THEN ProbeReturn(r.ok, r.m,
                        IF r.ok THEN [ref_ EXCEPT ![probe_.key] = <<probe_.value>>]
                                ELSE ref_,
                        probe_.i + 1,
                        r.ok /\ flat_.table_[at].state = kDeleted)
       ELSE IF entry.state = kDeleted
       THEN /\ probe_' = ProbeAdvance(probe_,
                                      IF probe_.first_deleted = kNpos
                                      THEN probe_.idx ELSE probe_.first_deleted)
            /\ UNCHANGED <<flat_, ref_>>
       ELSE IF entry.key = probe_.key
       THEN ProbeReturn(TRUE,
                        [flat_ EXCEPT !.table_[probe_.idx].value = probe_.value],
                        [ref_ EXCEPT ![probe_.key] = <<probe_.value>>],
                        probe_.i + 1, FALSE)
       ELSE ProbeLoops
    /\ UNCHANGED <<call_, ret_, cacheVars, shardedVars, threadVars, last,
                   stale, issued, erases, sum_>>

\* one iteration of the loop of Erase
ProbeEraseStep ==
    /\ probe_.pc = "loop" /\ probe_.op = "Erase"
    /\ probe_.i < TableSize(flat_)
    /\ LET entry == flat_.table_[probe_.idx] IN
       IF entry.state = kEmpty
       THEN ProbeReturn(FALSE, flat_, ref_, probe_.i + 1, FALSE)
       ELSE IF entry.state = kOccupied /\ entry.key = probe_.key
       THEN ProbeReturn(TRUE,
                        [flat_ EXCEPT !.table_[probe_.idx].state = kDeleted,
                                      !.size_ = @ - 1,
                                      !.tombstones_ = @ + 1],
                        [ref_ EXCEPT ![probe_.key] = Absent],
                        probe_.i + 1, FALSE)
       ELSE ProbeLoops
    /\ UNCHANGED <<call_, ret_, cacheVars, shardedVars, threadVars, last,
                   stale, issued, erases, sum_>>

\* the code after the loop, reached when i == table_.size()
ProbeExit ==
    /\ probe_.pc = "loop"
    /\ probe_.i >= TableSize(flat_)
    /\ IF probe_.op = "Insert" /\ probe_.first_deleted # kNpos
       THEN LET r == InsertAt(flat_, probe_.first_deleted, probe_.key,
                              probe_.value)
            IN  ProbeReturn(r.ok, r.m,
                            IF r.ok
                            THEN [ref_ EXCEPT ![probe_.key] = <<probe_.value>>]
                            ELSE ref_,
                            probe_.i, r.ok)
       ELSE ProbeReturn(FALSE, flat_, ref_, probe_.i, FALSE)
    /\ UNCHANGED <<call_, ret_, cacheVars, shardedVars, threadVars, last,
                   stale, issued, erases, sum_>>

ProbeRuns == ProbeFindStep \/ ProbeInsertStep \/ ProbeEraseStep \/ ProbeExit

NextProbe == ProbeCall \/ ProbeRuns

SpecProbe == InitFlat /\ [][NextProbe]_vars

\* the thread that is inside a call goes on executing it
SpecProbeFair == SpecProbe /\ WF_vars(ProbeRuns)

(***************************************************************************)
(* The slots as the claims speak of them.                                  *)
(***************************************************************************)
Positions == DOMAIN slots_

Occupied(p) == slots_[p].occupied = 1

Present(key) == \E p \in Positions : Occupied(p) /\ slots_[p].key = key

TypeOK ==
    /\ size_ \in 0 .. SlotCount
    /\ next_unused_ \in 0 .. SlotCount
    /\ \A p \in Positions :
         /\ slots_[p].key \in Keys
         /\ slots_[p].value \in Values
         /\ slots_[p].type \in Types
         /\ slots_[p].occupied \in {0, 1}

\* the position of the live entry of a present key
PositionOf(key) == CHOOSE p \in Positions : Occupied(p) /\ slots_[p].key = key

\* what the claims call validation, said of the slot a handle names
HandleMatches(handle) ==
    /\ handle # kNull
    /\ Position(handle) < SlotCount
    /\ slots_[Position(handle)].occupied = 1
    /\ slots_[Position(handle)].type = Type(handle)
    /\ slots_[Position(handle)].generation = Generation(handle)

\* the indices of the Occupied entries of a flat index
OccupiedEntries(m) == {i \in DOMAIN m.table_ : m.table_[i].state = kOccupied}

\* two handles that differ in their type bits only
TypeFlipped(h1, h2) ==
    /\ Position(h1) = Position(h2)
    /\ Generation(h1) = Generation(h2)
    /\ Type(h1) # Type(h2)

(***************************************************************************)
(* The claims below that speak of a call are invariants over every call    *)
(* the client can make in a reachable state: what InsertResult,            *)
(* InsertOrAssignResult, EraseResult, GetResult and FindHandleResult give  *)
(* there is what the call's action commits and records.                    *)
(***************************************************************************)

(***************************************************************************)
(* C2.  Get(h) returns a non-null pointer if and only if h is not kNull,   *)
(* position(h) < capacity, and the slot at position(h) is occupied with    *)
(* the type and the generation of h; a handle that differs from a valid    *)
(* handle in its type bits only makes Get return null.                     *)
(***************************************************************************)
GetIffHandleMatches ==
    \A handle \in Handles :
      /\ (GetResult(handle) # nullptr) <=> HandleMatches(handle)
      /\ GetResult(handle) # nullptr
           => GetResult(handle) = <<Position(handle)>>
      /\ (\E valid \in Handles :
            GetResult(valid) # nullptr /\ TypeFlipped(valid, handle))
         => GetResult(handle) = nullptr

\* Get has returned a pointer into a cache that holds two entries
GetReturnedPointer ==
    last.op = "Get" /\ last.ptr # nullptr /\ size = 2

(***************************************************************************)
(* C3.  Bounded capacity: size() <= capacity in every reachable state, and *)
(* when size() = capacity an Insert of a key that is not present returns   *)
(* kNull.                                                                  *)
(***************************************************************************)
BoundedCapacity ==
    /\ size <= SlotCount
    /\ \A type \in Types, key \in Keys, value \in Values :
         (size = SlotCount /\ ~Present(key))
           => InsertResult(type, key, value).ret = kNull

\* Insert was refused on a full cache whose entries went through an Erase
InsertRefusedWhenFull ==
    /\ last.op = "Insert" /\ ~last.found /\ last.h = kNull
    /\ size = SlotCount /\ erases > 0

(***************************************************************************)
(* C4.  An Insert of a key that is not present succeeds whenever           *)
(* size() < capacity: it returns a non-null handle, and that handle then   *)
(* validates (Get of it is not null).                                      *)
(***************************************************************************)
InsertSucceedsBelowCapacity ==
    \A type \in Types, key \in Keys, value \in Values :
      (size < SlotCount /\ ~Present(key))
        => LET r == InsertResult(type, key, value) IN
           /\ r.ret # kNull
           /\ GetResultIn(r.slots_, r.ret) # nullptr

\* Insert succeeded where the table of the index holds no Empty entry
InsertSucceededWithoutEmpty ==
    /\ last.op = "Insert" /\ ~last.found /\ last.h # kNull
    /\ key_to_position_.tombstones_ > 0
    /\ \A i \in DOMAIN key_to_position_.table_ :
         key_to_position_.table_[i].state # kEmpty

(***************************************************************************)
(* C5.  Idempotent insert: for a key already present, Insert(t, k, v)      *)
(* returns the handle the entry already has and leaves the stored value,   *)
(* the stored type, size, the freelist, the bump cursor and the index      *)
(* unchanged, for every t and v.                                           *)
(***************************************************************************)
InsertOfPresentKeyIsIdempotent ==
    \A type \in Types, key \in Keys, value \in Values :
      Present(key)
        => LET r == InsertResult(type, key, value)
               p == PositionOf(key)
           IN  /\ r.ret = Make(slots_[p].type, slots_[p].generation, p)
               /\ r.slots_ = slots_
               /\ r.size_ = size_
               /\ r.free_positions_ = free_positions_
               /\ r.next_unused_ = next_unused_
               /\ r.key_to_position_ = key_to_position_

\* Insert found its key and returned the handle of an entry of type 1
InsertReturnedExisting ==
    last.op = "Insert" /\ last.found /\ last.h # kNull /\ Type(last.h) = 1

(***************************************************************************)
(* C6.  For a key already present, InsertOrAssign(t, k, v) returns a       *)
(* handle with the position and the generation of the existing entry,      *)
(* sets the stored value to v and the stored type to t, and leaves size,   *)
(* the freelist, the bump cursor and the index unchanged.                  *)
(***************************************************************************)
InsertOrAssignOfPresentKey ==
    \A type \in Types, key \in Keys, value \in Values :
      Present(key)
        => LET r == InsertOrAssignResult(type, key, value)
               p == PositionOf(key)
           IN  /\ Position(r.ret) = p
               /\ Generation(r.ret) = slots_[p].generation
               /\ r.slots_[p].value = value
               /\ r.slots_[p].type = type
               /\ r.slots_[p].generation = slots_[p].generation
               /\ r.slots_[p].key = key
               /\ r.slots_[p].occupied = 1
               /\ \A q \in Positions \ {p} : r.slots_[q] = slots_[q]
               /\ r.size_ = size_
               /\ r.free_positions_ = free_positions_
               /\ r.next_unused_ = next_unused_
               /\ r.key_to_position_ = key_to_position_

\* InsertOrAssign found its key, in a slot that has been reused
InsertOrAssignReturnedExisting ==
    /\ last.op = "InsertOrAssign" /\ last.found /\ last.h # kNull
    /\ Generation(last.h) > 1

(***************************************************************************)
(* C7, as the claim states it.  For every Insert(t, k, v) that returns a   *)
(* non-null handle h, an immediately following Get(h) returns a pointer to *)
(* a value equal to v, and FindHandle(k) = h.                              *)
(***************************************************************************)
InsertRoundTrip ==
    \A type \in Types, key \in Keys, value \in Values :
      LET r == InsertResult(type, key, value) IN
      r.ret # kNull
        => /\ GetResultIn(r.slots_, r.ret) # nullptr
           /\ DerefIn(r.slots_, GetResultIn(r.slots_, r.ret)) = value
           /\ FindHandleIn(r.slots_, r.key_to_position_, key) = r.ret

(***************************************************************************)
(* C7, amended.  For every Insert(t, k, v) that returns a non-null handle  *)
(* h, FindHandle(k) = h and an immediately following Get(h) returns a      *)
(* non-null pointer: to a value equal to v when k was not present before   *)
(* the call, and to the value stored before the call when k was present.   *)
(***************************************************************************)
InsertRoundTripOfNewKey ==
    \A type \in Types, key \in Keys, value \in Values :
      LET r == InsertResult(type, key, value) IN
      r.ret # kNull
        => /\ GetResultIn(r.slots_, r.ret) # nullptr
           /\ DerefIn(r.slots_, GetResultIn(r.slots_, r.ret)) =
                IF Present(key) THEN slots_[PositionOf(key)].value ELSE value
           /\ FindHandleIn(r.slots_, r.key_to_position_, key) = r.ret

\* Insert stored a new key with the value 1 and a handle of type 1
InsertStoredNewKey ==
    /\ last.op = "Insert" /\ ~last.found /\ last.h # kNull
    /\ Type(last.h) = 1
    /\ slots_[Position(last.h)].value = 1

(***************************************************************************)
(* C10.  In every reachable state 0 <= size() <= capacity, and size() is   *)
(* the number of slots whose occupied flag is set.                         *)
(***************************************************************************)
SizeCountsOccupied ==
    /\ 0 <= size
    /\ size <= SlotCount
    /\ size = Cardinality({p \in Positions : Occupied(p)})

\* an Erase has succeeded and left one of two entries live
EraseLeftOneLive ==
    last.op = "Erase" /\ last.ok /\ size = 1 /\ SlotCount = 2

(***************************************************************************)
(* C1, as the claim states it.  In both caches, once Erase(h) has returned *)
(* true, every later Get(h) returns null/false, every later Erase(h)       *)
(* returns false and (sharded) every later Update, Add, Write and Read     *)
(* with h returns false, even if the same key is inserted again and lands  *)
(* in the same position.                                                   *)
(***************************************************************************)
StaleHandleRejectedForever ==
    \A r \in stale :
      /\ HasFdKVCache =>
           /\ GetResult(r.h) = nullptr
           /\ ~EraseResult(r.h).ret
      /\ HasShardedFdKVCache =>
           /\ ~ShardedGetResult(r.h).ret
           /\ ~ShardedEraseResult(r.h).ret
           /\ ~ReadResult(r.h).ret
           /\ \A value \in Values :
                /\ ~UpdateResult(r.h, value).ret
                /\ ~AddResult(r.h, value).ret
           /\ \A writer \in [Values -> Values] :
                ~WriteResult(r.h, writer).ret

(***************************************************************************)
(* C1, amended.  In both caches, once Erase(h) has returned true, Get(h)   *)
(* returns null/false, Erase(h) returns false and (sharded) Update, Add,   *)
(* Write and Read with h return false, for as long as fewer than           *)
(* kMaxGeneration - 1 further erases of the position of h have succeeded,  *)
(* even if the same key is inserted again and lands in the same position.  *)
(***************************************************************************)
StaleHandleRejected ==
    \A r \in stale :
      r.n < kMaxGeneration - 1 =>
        /\ HasFdKVCache =>
             /\ GetResult(r.h) = nullptr
             /\ ~EraseResult(r.h).ret
        /\ HasShardedFdKVCache =>
             /\ ~ShardedGetResult(r.h).ret
             /\ ~ShardedEraseResult(r.h).ret
             /\ ~ReadResult(r.h).ret
             /\ \A value \in Values :
                  /\ ~UpdateResult(r.h, value).ret
                  /\ ~AddResult(r.h, value).ret
             /\ \A writer \in [Values -> Values] :
                  ~WriteResult(r.h, writer).ret

\* the key of an erased handle is live again in the same position and with
\* the same type, before the generation has come round
StaleHandleKeyReinserted ==
    /\ HasFdKVCache
    /\ \E r \in stale :
         /\ r.n < kMaxGeneration - 1
         /\ Occupied(Position(r.h))
         /\ slots_[Position(r.h)].key = r.key
         /\ slots_[Position(r.h)].type = Type(r.h)

(***************************************************************************)
(* C8, as the claim states it.  Any two successful Inserts of distinct     *)
(* keys return handles whose (position, generation) pairs differ.          *)
(***************************************************************************)
HandlesOfDistinctKeysDiffer ==
    \A r1 \in issued, r2 \in issued :
      r1.key # r2.key
        => \/ Position(r1.h) # Position(r2.h)
           \/ Generation(r1.h) # Generation(r2.h)

(***************************************************************************)
(* C8, amended.  Any two successful Inserts of distinct keys return        *)
(* handles whose (position, generation) pairs differ, unless at least      *)
(* kMaxGeneration erases of that position have succeeded since the earlier *)
(* of the two.                                                             *)
(***************************************************************************)
HandlesOfDistinctKeysDifferUntilWrap ==
    \A r1 \in issued, r2 \in issued :
      (r1.key # r2.key /\ r1.n < kMaxGeneration /\ r2.n < kMaxGeneration)
        => \/ Position(r1.h) # Position(r2.h)
           \/ Generation(r1.h) # Generation(r2.h)

\* two keys got the same position one after the other, the slot reused
\* before its generation has come round
SamePositionReusedForOtherKey ==
    \E r1 \in issued, r2 \in issued :
      /\ r1.key # r2.key
      /\ Position(r1.h) = Position(r2.h)
      /\ r1.n < kMaxGeneration /\ r2.n < kMaxGeneration

(***************************************************************************)
(* C9.  The generation of a slot: a slot never allocated is free with      *)
(* generation 1; Insert and InsertOrAssign change no generation; a         *)
(* successful Erase advances the generation of its slot by one step,       *)
(* g -> g + 1, and kMaxGeneration -> 1, and no other; a refused Erase      *)
(* changes none; the generation is never 0; and where the generation of a  *)
(* slot is 1, a handle that carries kMaxGeneration fails validation.       *)
(***************************************************************************)
GenerationStateMachine ==
    /\ \A p \in Positions :
         /\ slots_[p].generation \in 1 .. kMaxGeneration
         /\ p >= next_unused_ => ~Occupied(p) /\ slots_[p].generation = 1
    /\ \A type \in Types, key \in Keys, value \in Values, p \in Positions :
         /\ InsertResult(type, key, value).slots_[p].generation
              = slots_[p].generation
         /\ InsertOrAssignResult(type, key, value).slots_[p].generation
              = slots_[p].generation
    /\ \A handle \in Handles :
         LET r == EraseResult(handle) IN
         \A p \in Positions :
           r.slots_[p].generation =
             IF r.ret /\ p = Position(handle)
             THEN (IF slots_[p].generation = kMaxGeneration
                   THEN 1 ELSE slots_[p].generation + 1)
             ELSE slots_[p].generation
    /\ \A handle \in Handles :
         (/\ Position(handle) \in Positions
          /\ slots_[Position(handle)].generation = 1
          /\ Generation(handle) = kMaxGeneration)
           => GetResult(handle) = nullptr

\* a slot has gone from kMaxGeneration to generation 1 and is live again
GenerationWrapped ==
    /\ SlotCount = 1 /\ erases = kMaxGeneration
    /\ slots_[0].generation = 1 /\ Occupied(0)

(***************************************************************************)
(* C11.  Index and slots agree: for every occupied slot at index p with    *)
(* key k the flat index maps k to p, every Occupied entry (k -> p) of the  *)
(* index points to an occupied slot whose key is k, and after a successful *)
(* Erase of the handle of k, FindHandle(k) returns kNull.                  *)
(***************************************************************************)
IndexAndSlotsAgree ==
    /\ \A p \in Positions :
         Occupied(p) =>
           FlatFind(key_to_position_, slots_[p].key)
             = [found |-> TRUE, value |-> p]
    /\ \A i \in OccupiedEntries(key_to_position_) :
         LET entry == key_to_position_.table_[i] IN
         /\ entry.value \in Positions
         /\ Occupied(entry.value)
         /\ slots_[entry.value].key = entry.key
    /\ \A handle \in Handles :
         LET r == EraseResult(handle) IN
         r.ret => FindHandleIn(r.slots_, r.key_to_position_,
                               slots_[Position(handle)].key) = kNull

\* an Erase has succeeded and left a tombstone beside a live entry
EraseLeftTombstoneBesideLiveKey ==
    /\ last.op = "Erase" /\ last.ok
    /\ key_to_position_.tombstones_ > 0
    /\ \E p \in Positions : Occupied(p)

(***************************************************************************)
(* C12.  No slot index is both in free_positions_ and the value of an      *)
(* Occupied entry of the flat index.                                       *)
(***************************************************************************)
FreeAndIndexedDisjoint ==
    \A n \in 1 .. Len(free_positions_) :
      \A i \in OccupiedEntries(key_to_position_) :
        key_to_position_.table_[i].value # free_positions_[n]

\* an Insert has taken a position off the freelist and left another on it
InsertPoppedFreelist ==
    /\ last.op = "Insert" /\ last.h # kNull /\ Generation(last.h) > 1
    /\ free_positions_ # <<>>

(***************************************************************************)
(* C13, as the claim states it.  In every state reachable by Insert/Erase  *)
(* on a FlatIndexMap initialised with max_entries,                         *)
(* size + tombstones <= max_entries.                                       *)
(***************************************************************************)
TombstonesCountAgainstCapacity ==
    flat_.size_ + flat_.tombstones_ <= flat_.max_entries_

(***************************************************************************)
(* C13, amended.  In every state reachable by Insert/Erase on a            *)
(* FlatIndexMap initialised with max_entries, size <= max_entries and      *)
(* size + tombstones <= the length of the table, where size is the number  *)
(* of Occupied entries and tombstones the number of Deleted entries.       *)
(***************************************************************************)
SizeWithinCapacityAndTable ==
    /\ flat_.size_ <= flat_.max_entries_
    /\ flat_.size_ + flat_.tombstones_ <= Cardinality(DOMAIN flat_.table_)
    /\ flat_.size_ = Cardinality(OccupiedEntries(flat_))
    /\ flat_.tombstones_ =
         Cardinality({i \in DOMAIN flat_.table_ :
                        flat_.table_[i].state = kDeleted})

\* the index is at its logical capacity and holds a tombstone as well
FullIndexWithTombstone ==
    /\ flat_.size_ = flat_.max_entries_
    /\ flat_.tombstones_ > 0

(***************************************************************************)
(* C14, as the claim states it.  No rehash: once size + tombstones ==      *)
(* max_entries, every further Insert of a key that is not present returns  *)
(* false, even when size < max_entries.                                    *)
(***************************************************************************)
InsertRefusedOnceTombstonesFill ==
    flat_.size_ + flat_.tombstones_ >= flat_.max_entries_
      => \A key \in Keys, value \in Values :
           ~FlatFind(flat_, key).found => ~FlatInsert(flat_, key, value).ok

(***************************************************************************)
(* C14, amended.  No rehash: the table keeps the length Init gave it, and  *)
(* an Insert of a key that is not present returns false exactly when       *)
(* size == max_entries; it succeeds when size < max_entries, whatever the  *)
(* number of tombstones.                                                   *)
(***************************************************************************)
InsertRefusedExactlyWhenFull ==
    /\ Cardinality(DOMAIN flat_.table_)
         = NextPowerOfTwo(flat_.max_entries_ * 2)
    /\ \A key \in Keys, value \in Values :
         ~FlatFind(flat_, key).found
           => /\ FlatInsert(flat_, key, value).ok
                   <=> flat_.size_ < flat_.max_entries_
              /\ DOMAIN FlatInsert(flat_, key, value).m.table_
                   = DOMAIN flat_.table_

\* an Insert of a new key has succeeded although size + tombstones was at
\* max_entries before it
InsertSucceededOverTombstones ==
    /\ last.op = "IndexInsert" /\ last.ok /\ ~last.found
    /\ flat_.size_ + flat_.tombstones_ > flat_.max_entries_

(***************************************************************************)
(* C15.  Tombstone stress: after any sequence of Insert/Erase, also of     *)
(* keys that all collide on one bucket, Find(k) returns what a reference   *)
(* map returns (the value of the latest Insert of k not followed by an     *)
(* Erase of k, otherwise absent), and no Insert of a new key returns false *)
(* while size < max_entries.                                               *)
(***************************************************************************)
FindAgreesWithReference ==
    /\ \A key \in Keys : FlatFind(flat_, key) = RefFind(ref_, key)
    /\ \A key \in Keys, value \in Values :
         (ref_[key] = Absent /\ flat_.size_ < flat_.max_entries_)
           => FlatInsert(flat_, key, value).ok

\* all keys collide on one bucket, and Find has found a key with a
\* tombstone lying before it on its probe path
FoundKeyBehindTombstone ==
    /\ \A k1 \in Keys, k2 \in Keys : flat_.hasher_[k1] = flat_.hasher_[k2]
    /\ last.op = "IndexFind" /\ last.ok
    /\ flat_.table_[ProbeStart(flat_, 0)].state = kDeleted

(***************************************************************************)
(* C16.  No state mutation survives a refusal: whenever Insert or          *)
(* InsertOrAssign returns kNull or Erase returns false, and in the sharded *)
(* cache also when Write, Update or Add returns false, the state of the    *)
(* cache after the call (slots, freelist, next_unused, index, size) is the *)
(* state before it.  Get and Read are const and assign nothing.            *)
(***************************************************************************)
RefusalLeavesStateAlone ==
    /\ HasFdKVCache =>
         /\ \A type \in Types, key \in Keys, value \in Values :
              /\ InsertResult(type, key, value).ret = kNull
                   => InsertResult(type, key, value) = Unchanged(kNull)
              /\ InsertOrAssignResult(type, key, value).ret = kNull
                   => InsertOrAssignResult(type, key, value) = Unchanged(kNull)
         /\ \A handle \in Handles :
              ~EraseResult(handle).ret
                => EraseResult(handle) = Unchanged(FALSE)
    /\ HasShardedFdKVCache =>
         /\ \A type \in Types, key \in Keys, value \in Values :
              /\ ShardedInsertResult(type, key, value).ret = kNull
                   => ShardedInsertResult(type, key, value)
                        = ShardedUnchanged(kNull)
              /\ ShardedInsertOrAssignResult(type, key, value).ret = kNull
                   => ShardedInsertOrAssignResult(type, key, value)
                        = ShardedUnchanged(kNull)
         /\ \A handle \in Handles :
              /\ ~ShardedEraseResult(handle).ret
                   => ShardedEraseResult(handle) = ShardedUnchanged(FALSE)
              /\ \A writer \in [Values -> Values] :
                   ~WriteResult(handle, writer).ret
                     => WriteResult(handle, writer) = ShardedUnchanged(FALSE)
              /\ \A value \in Values :
                   /\ ~UpdateResult(handle, value).ret
                        => UpdateResult(handle, value) = ShardedUnchanged(FALSE)
                   /\ ~AddResult(handle, value).ret
                        => AddResult(handle, value) = ShardedUnchanged(FALSE)

\* the sharded cache has refused an Insert, a tombstone lying in the index
\* of the shard
ShardRefusedInsertOverTombstone ==
    /\ HasShardedFdKVCache
    /\ last.op = "ShardedInsert" /\ last.h = kNull
    /\ \E i \in DOMAIN shards_ : shards_[i].key_to_local.tombstones_ > 0

(***************************************************************************)
(* C17.  Every handle that Insert, InsertOrAssign or FindHandle returns    *)
(* for a key the cache holds after the call is different from kNull and    *)
(* has a generation of at least 1, and a handle whose generation field is  *)
(* 0 is rejected by Get and by Erase, whatever its type and position.      *)
(***************************************************************************)
HandlesCarryGeneration ==
    HasFdKVCache =>
      /\ \A type \in Types, key \in Keys, value \in Values :
           /\ LET r == InsertResult(type, key, value) IN
              /\ FlatFind(r.key_to_position_, key).found => r.ret # kNull
              /\ r.ret # kNull => Generation(r.ret) >= 1
           /\ LET r == InsertOrAssignResult(type, key, value) IN
              /\ FlatFind(r.key_to_position_, key).found => r.ret # kNull
              /\ r.ret # kNull => Generation(r.ret) >= 1
      /\ \A key \in Keys :
           /\ Present(key) => FindHandleResult(key) # kNull
           /\ FindHandleResult(key) # kNull
                => Generation(FindHandleResult(key)) >= 1
      /\ \A handle \in Handles :
           Generation(handle) = 0
             => /\ GetResult(handle) = nullptr
                /\ ~EraseResult(handle).ret

\* Insert has returned a handle of generation 1 for the one slot of a cache
\* whose generation has wrapped
InsertReturnedWrappedGeneration ==
    /\ HasFdKVCache
    /\ SlotCount = 1
    /\ erases = kMaxGeneration
    /\ last.op = "Insert" /\ last.h # kNull
    /\ Generation(last.h) = 1

\* Insert of a key takes the back of the freelist, else the cursor, else fails
InsertTakesNextPosition(type, key, value) ==
    LET r == InsertResult(type, key, value) IN
    IF free_positions_ # <<>>
    THEN /\ r.ret # kNull
         /\ Position(r.ret) = free_positions_[Len(free_positions_)]
         /\ r.free_positions_ = SubSeq(free_positions_, 1,
                                       Len(free_positions_) - 1)
         /\ r.next_unused_ = next_unused_
    ELSE IF next_unused_ < SlotCount
    THEN /\ r.ret # kNull
         /\ Position(r.ret) = next_unused_
         /\ r.free_positions_ = <<>>
         /\ r.next_unused_ = next_unused_ + 1
    ELSE r.ret = kNull

\* the same of the sharded Insert, in the shard of the key
ShardedInsertTakesNextLocal(type, key, value) ==
    LET r == ShardedInsertResult(type, key, value)
        shard_id == ShardForKey(key)
        shard == shards_[shard_id]
        after == r.shards_[shard_id]
    IN
    IF shard.free_positions # <<>>
    THEN /\ r.ret # kNull
         /\ Position(r.ret) =
              EncodePosition(shard_id,
                             shard.free_positions[Len(shard.free_positions)])
         /\ after.free_positions = SubSeq(shard.free_positions, 1,
                                          Len(shard.free_positions) - 1)
         /\ after.next_unused = shard.next_unused
    ELSE IF shard.next_unused < per_shard_capacity_
    THEN /\ r.ret # kNull
         /\ Position(r.ret) = EncodePosition(shard_id, shard.next_unused)
         /\ after.free_positions = <<>>
         /\ after.next_unused = shard.next_unused + 1
    ELSE r.ret = kNull

\* the positions from the cursor on were never used
CursorIsLowestUnused ==
    /\ HasFdKVCache =>
         \A p \in Positions : p >= next_unused_ => slots_[p] = DefaultSlot
    /\ HasShardedFdKVCache =>
         \A i \in DOMAIN shards_ : \A p \in DOMAIN shards_[i].slots :
           p >= shards_[i].next_unused => shards_[i].slots[p] = DefaultSlot

\* every Insert of a new key allocates in the order of AllocatePosition
NewKeysAllocateInOrder ==
    /\ CursorIsLowestUnused
    /\ HasFdKVCache =>
         \A type \in Types, key \in Keys, value \in Values :
           ~Present(key) => InsertTakesNextPosition(type, key, value)
    /\ HasShardedFdKVCache =>
         \A type \in Types, key \in Keys, value \in Values :
           ~ShardedPresent(key)
             => ShardedInsertTakesNextLocal(type, key, value)

\* Erase has just freed a position of a cache that was full
ErasedFromFullCache ==
    /\ HasFdKVCache
    /\ last.op = "Erase" /\ last.ok
    /\ size_ = SlotCount - 1

\* ShardedErase has just freed a position of a sharded cache that was full
ErasedFromFullShardedCache ==
    /\ HasShardedFdKVCache
    /\ last.op = "ShardedErase" /\ last.ok
    /\ sharded_size_ = shard_count_ * per_shard_capacity_ - 1

\* ShardedErase has just freed a position of a shard that was full
ErasedFromFullShard ==
    /\ HasShardedFdKVCache
    /\ last.op = "ShardedErase" /\ last.ok
    /\ LET shard == shards_[DecodePosition(last.h).shard_id] IN
       /\ Len(shard.free_positions) = 1
       /\ shard.next_unused = per_shard_capacity_

(***************************************************************************)
(* C18 as stated.  An Insert of a new key takes the most recently erased   *)
(* position when the freelist is not empty, otherwise the lowest index     *)
(* never used, otherwise fails; so on a full cache, after Erase of the     *)
(* handle at position p with generation g, the next Insert of a new key    *)
(* succeeds at position p with generation g + 1.                           *)
(***************************************************************************)
ReuseIsOneGenerationLater ==
    /\ NewKeysAllocateInOrder
    /\ ErasedFromFullCache =>
         \A type \in Types, key \in Keys, value \in Values :
           ~Present(key)
             => InsertResult(type, key, value).ret
                  = Make(type, Generation(last.h) + 1, Position(last.h))
    /\ ErasedFromFullShardedCache =>
         \A type \in Types, key \in Keys, value \in Values :
           ~ShardedPresent(key)
             => ShardedInsertResult(type, key, value).ret
                  = Make(type, Generation(last.h) + 1, Position(last.h))

(***************************************************************************)
(* C18, amended.  An Insert of a new key takes the most recently erased    *)
(* position when the freelist is not empty, otherwise the lowest index     *)
(* never used, otherwise fails; so on a full cache, after Erase of the     *)
(* handle at position p with generation g, the next Insert of a new key    *)
(* succeeds at position p with generation g + 1, or with generation 1 when *)
(* g is kMaxGeneration.  In the sharded cache this is said of a full shard *)
(* and of a new key that hashes to it.                                     *)
(***************************************************************************)
ReuseIsNextGeneration ==
    /\ NewKeysAllocateInOrder
    /\ ErasedFromFullCache =>
         \A type \in Types, key \in Keys, value \in Values :
           ~Present(key)
             => InsertResult(type, key, value).ret
                  = Make(type,
                         IF Generation(last.h) = kMaxGeneration
                           THEN 1 ELSE Generation(last.h) + 1,
                         Position(last.h))
    /\ ErasedFromFullShard =>
         \A type \in Types, key \in Keys, value \in Values :
           (~ShardedPresent(key)
              /\ ShardForKey(key) = DecodePosition(last.h).shard_id)
             => ShardedInsertResult(type, key, value).ret
                  = Make(type,
                         IF Generation(last.h) = kMaxGeneration
                           THEN 1 ELSE Generation(last.h) + 1,
                         Position(last.h))

\* Erase has freed a position of a full cache at the largest generation
ErasedLargestGenerationOfFullCache ==
    /\ ErasedFromFullCache
    /\ SlotCount = 2
    /\ Generation(last.h) = kMaxGeneration

\* the thread holds a lock of a shard: it is between the constructor of the
\* lock and the return
InCritical(t) == threads_[t].pc \in {"in", "rmw"}

(***************************************************************************)
(* C19.  Under every interleaving of Insert, InsertOrAssign, Erase, Update, *)
(* Add, Read and FindHandle threads, a thread whose method assigns to a    *)
(* shard holds the mutex of the shard exclusively while it is inside, a    *)
(* thread whose method only reads holds it shared or exclusively, the      *)
(* mutex is never held exclusively and shared at once, and so a writer is  *)
(* never inside the critical section of a shard with any other thread.     *)
(***************************************************************************)
WritersAreAlone ==
    /\ \A t \in Threads :
         InCritical(t) =>
           LET m == mutex_[threads_[t].shard] IN
           IF Mutates(threads_[t].op) THEN m.unique = {t}
           ELSE t \in m.shared \cup m.unique
    /\ \A i \in DOMAIN mutex_ :
         /\ Cardinality(mutex_[i].unique) <= 1
         /\ mutex_[i].unique # {} => mutex_[i].shared = {}
    /\ \A t1 \in Threads, t2 \in Threads :
         (/\ t1 # t2
          /\ InCritical(t1) /\ InCritical(t2)
          /\ threads_[t1].shard = threads_[t2].shard)
           => ~Mutates(threads_[t1].op) /\ ~Mutates(threads_[t2].op)

\* a thread is between the load and the store of Add while another thread
\* waits for the mutex of the same shard with an Erase
EraseWaitsForAdd ==
    \E t1 \in Threads, t2 \in Threads :
      /\ threads_[t1].pc = "rmw" /\ threads_[t1].op = "Add"
      /\ threads_[t2].pc = "wait" /\ threads_[t2].op = "Erase"
      /\ threads_[t1].shard = threads_[t2].shard
      /\ threads_[t1].h = threads_[t2].h

(***************************************************************************)
(* C20.  No lost updates: when the threads call Add and Read with handles  *)
(* that are live, and no thread calls Erase, every call returns true, and  *)
(* when all the threads have returned the value of every slot is the value *)
(* inserted plus the sum of the deltas of the Add calls on the slot.       *)
(***************************************************************************)
NoLostUpdates ==
    /\ last.op = "Thread" => last.ok
    /\ Quiescent =>
         \A pos \in DOMAIN sum_ : SlotAt(pos).value = sum_[pos].sum

\* all the threads have returned, two of their Add calls on one slot having
\* met at the mutex of its shard
RacingAddsReturned ==
    /\ threads_ # <<>>
    /\ Quiescent
    /\ last.op = "Thread"
    /\ \E pos \in DOMAIN sum_ : sum_[pos].adds = MaxAdds /\ sum_[pos].raced

\* the thread is between the validation of the slot and the end of the
\* callback of Read or Write
InCallback(t) == threads_[t].pc = "rmw"

(***************************************************************************)
(* C21.  Read and Write validate the slot and call the callback inside one *)
(* critical section of the shard of the handle: a call that has the lock   *)
(* goes on to its callback if and only if the slot is occupied with the    *)
(* type and the generation of the handle at that moment, and from the      *)
(* validation to the end of the callback the thread holds the mutex, the   *)
(* slot stays occupied with that type and generation, and the value the    *)
(* writer loaded is the value of the slot, so that no Erase, Insert or     *)
(* Write of the shard has taken effect in between.                         *)
(***************************************************************************)
CallbackRunsInsideTheLock ==
    \A t \in Threads :
      LET c == threads_[t] IN
      /\ (c.pc = "in" /\ c.op = "Read")
           => (ReadResult(c.h).ret
                 <=> /\ SlotOf(c.h).occupied = 1
                     /\ SlotOf(c.h).type = Type(c.h)
                     /\ SlotOf(c.h).generation = Generation(c.h))
      /\ (c.pc = "in" /\ c.op \in {"Update", "Add"})
           => (WriteResult(c.h, WriterOf(c.op, c.value)).ret
                 <=> /\ SlotOf(c.h).occupied = 1
                     /\ SlotOf(c.h).type = Type(c.h)
                     /\ SlotOf(c.h).generation = Generation(c.h))
      /\ InCallback(t)
           => /\ t \in mutex_[c.shard].unique \cup mutex_[c.shard].shared
              /\ SlotOf(c.h).occupied = 1
              /\ SlotOf(c.h).type = Type(c.h)
              /\ SlotOf(c.h).generation = Generation(c.h)
              /\ c.op \in {"Update", "Add"}
                   => /\ SlotOf(c.h).value = c.tmp
                      /\ StoreValue(c.h, WriterOf(c.op, c.value)[c.tmp])
                           = WriteResult(c.h, WriterOf(c.op, c.value)).shards_

\* a thread is in the reader of Read while another thread waits for the
\* mutex of the same shard with an Erase of the same handle
EraseWaitsForReader ==
    \E t1 \in Threads, t2 \in Threads :
      /\ InCallback(t1) /\ threads_[t1].op = "Read"
      /\ threads_[t2].pc = "wait" /\ threads_[t2].op = "Erase"
      /\ threads_[t1].h = threads_[t2].h

\* the occupied slots of a shard
OccupiedLocals(shard) == {p \in DOMAIN shard.slots : shard.slots[p].occupied = 1}

\* the occupied slots of the sharded cache
OccupiedSlots ==
    {pos \in 0 .. (kPositionSpan - 1) :
       /\ pos \div kLocalSpan \in DOMAIN shards_
       /\ AndLocalMask(pos) \in OccupiedLocals(shards_[pos \div kLocalSpan])}

(***************************************************************************)
(* C22.  The operations of a shard are linearizable: a thread that has run *)
(* Find in InsertImpl holds the mutex alone and the result of Find stays   *)
(* the result Find has, so that its two steps are the one InsertImpl of a  *)
(* single thread, at a point between its call and its return; and when two *)
(* threads Insert the same absent key at once, one slot holds the key, the *)
(* size counts it once, and both calls return the handle that FindHandle   *)
(* gives.                                                                  *)
(***************************************************************************)
InsertsOfOneKeyAgree ==
    /\ \A t \in Threads :
         LET c == threads_[t] IN
         c.pc = "found"
           => /\ mutex_[c.shard] = [unique |-> {t}, shared |-> {}]
              /\ c.f = FlatFind(shards_[c.shard].key_to_local, c.key)
              /\ InsertImplAfterFind(c.type, c.key, c.value, FALSE, c.f)
                   = InsertImpl(c.type, c.key, c.value, FALSE)
    /\ \A r \in issued : ShardedFindHandleResult(r.key) = r.h
    /\ \A r1 \in issued, r2 \in issued : r1.key = r2.key => r1.h = r2.h
    /\ \A key \in Keys :
         Cardinality({pos \in OccupiedSlots : SlotAt(pos).key = key}) <= 1
    /\ sharded_size_ = Cardinality(OccupiedSlots)

\* a thread has found a key absent and the other thread waits for the mutex
\* with an Insert of the same key
InsertWaitsForInsertOfSameKey ==
    \E t1 \in Threads, t2 \in Threads :
      /\ threads_[t1].pc = "found" /\ ~threads_[t1].f.found
      /\ threads_[t2].pc = "wait" /\ threads_[t2].op = "Insert"
      /\ threads_[t1].key = threads_[t2].key

(***************************************************************************)
(* C23.  Whenever no operation of the sharded cache is in flight, size()   *)
(* is the number of occupied slots over all shards; and it counts the      *)
(* Inserts of new keys that succeeded less the Erases that succeeded, as   *)
(* an Insert or InsertOrAssign adds 1 exactly when it stores a key that    *)
(* was absent and an Erase takes 1 exactly when it returns true.           *)
(***************************************************************************)
SizeCountsOccupiedSlots ==
    /\ Quiescent => sharded_size_ = Cardinality(OccupiedSlots)
    /\ \A type \in Types, key \in Keys, value \in Values,
          assign_if_exists \in BOOLEAN :
         LET r == InsertImpl(type, key, value, assign_if_exists) IN
         r.size_ = IF r.ret # kNull /\ ~ShardedPresent(key)
                   THEN sharded_size_ + 1 ELSE sharded_size_
    /\ \A handle \in Handles :
         LET r == ShardedEraseResult(handle) IN
         r.size_ = IF r.ret THEN sharded_size_ - 1 ELSE sharded_size_

\* the threads have returned, an Erase of theirs having freed a slot and an
\* Insert having filled one
ThreadsJoinedAfterErase ==
    /\ threads_ # <<>>
    /\ Quiescent
    /\ erases = MaxThreadErases
    /\ sharded_size_ = 1
    /\ \E i \in DOMAIN shards_ : shards_[i].free_positions # <<>>

\* position >> kLocalBits and position & kLocalMask of a handle
ShardBits(handle) == Position(handle) \div Pow2(kLocalBits)

LocalBits(handle) == Position(handle) % Pow2(kLocalBits)

\* the handle is one for the key: its shard is hash(key) mod shard_count and
\* its local index is within the capacity of a shard
EncodesKey(handle, key) ==
    /\ ShardBits(handle) = sharded_hasher_[key] % Cardinality(DOMAIN shards_)
    /\ ShardBits(handle) < Cardinality(DOMAIN shards_)
    /\ LocalBits(handle) < per_shard_capacity_

(***************************************************************************)
(* C24.  Every handle other than kNull that Insert, InsertOrAssign or      *)
(* FindHandle of the sharded cache returns for a key has the shard         *)
(* hash(key) mod shard_count above kLocalBits in its position, and a local *)
(* index below per_shard_capacity in the kLocalBits below; and Read, Write *)
(* and Erase reject every handle whose shard is shard_count or more or     *)
(* whose local index is per_shard_capacity or more.                        *)
(***************************************************************************)
HandlesEncodeShardAndLocal ==
    HasShardedFdKVCache =>
      /\ \A type \in Types, key \in Keys, value \in Values,
            assign_if_exists \in BOOLEAN :
           LET r == InsertImpl(type, key, value, assign_if_exists) IN
           r.ret # kNull => EncodesKey(r.ret, key)
      /\ \A key \in Keys :
           ShardedFindHandleResult(key) # kNull
             => EncodesKey(ShardedFindHandleResult(key), key)
      /\ \A handle \in Handles :
           (\/ ShardBits(handle) >= Cardinality(DOMAIN shards_)
            \/ LocalBits(handle) >= per_shard_capacity_)
             => /\ ~ReadResult(handle).ret
                /\ ~ShardedEraseResult(handle).ret
                /\ \A writer \in [Values -> Values] :
                     ~WriteResult(handle, writer).ret

\* Insert has returned a handle of the second shard of a cache whose shards
\* hold one slot each
InsertReturnedHandleOfSecondShard ==
    /\ HasShardedFdKVCache
    /\ per_shard_capacity_ = 1
    /\ last.op = "ShardedInsert" /\ last.h # kNull
    /\ ShardBits(last.h) = 1

\* the shard a call is about: the one of its key or the one in its handle
TargetShard(c) ==
    IF c.op \in {"Insert", "InsertOrAssign", "FindHandle"}
    THEN sharded_hasher_[c.key] % Cardinality(DOMAIN shards_)
    ELSE ShardBits(c.h)

(***************************************************************************)
(* C25.  No leakage across shards: a thread holds the mutex of no shard    *)
(* but the one of its key or handle, and only inside its critical section; *)
(* and every Insert, InsertOrAssign, Erase, Update and Add the threads can *)
(* call leaves the slots, freelist, next_unused and index of every other   *)
(* shard as they are.                                                      *)
(***************************************************************************)
OtherShardsUntouched ==
    /\ \A t \in Threads, i \in DOMAIN mutex_ :
         t \in mutex_[i].unique \cup mutex_[i].shared
           => InCritical(t) /\ i = TargetShard(threads_[t])
    /\ \A type \in ThreadTypes, key \in LongKeys, value \in Values,
          assign_if_exists \in BOOLEAN, i \in DOMAIN shards_ :
         i # sharded_hasher_[key] % Cardinality(DOMAIN shards_)
           => InsertImpl(type, key, value, assign_if_exists).shards_[i]
                = shards_[i]
    /\ \A handle \in ThreadHandles, i \in DOMAIN shards_ :
         i # ShardBits(handle)
           => /\ ShardedEraseResult(handle).shards_[i] = shards_[i]
              /\ \A op \in {"Update", "Add"} :
                   WriteResult(handle, WriterOf(op, MaxValue)).shards_[i]
                     = shards_[i]
    /\ \A t \in Threads, i \in DOMAIN shards_ :
         LET c == threads_[t] IN
         (InCallback(t) /\ c.op \in {"Update", "Add"} /\ i # ShardBits(c.h))
           => StoreValue(c.h, WriterOf(c.op, c.value)[c.tmp])[i] = shards_[i]

\* two threads are inside the critical sections of different shards, each
\* with a method that assigns to its shard
WritersInsideDifferentShards ==
    \E t1 \in Threads, t2 \in Threads :
      /\ InCritical(t1) /\ InCritical(t2)
      /\ threads_[t1].shard # threads_[t2].shard
      /\ threads_[t1].op = "Add" /\ threads_[t1].pc = "rmw"
      /\ threads_[t2].op = "Erase"

\* the shards whose mutex a thread holds
HeldBy(t) == {i \in DOMAIN mutex_ : t \in mutex_[i].unique \cup mutex_[i].shared}

LockDiscipline ==
    \A t \in Threads :
      /\ Cardinality(HeldBy(t)) <= 1
      /\ threads_[t].pc \in {"idle", "wait"} => HeldBy(t) = {}
      /\ InCritical(t) => HeldBy(t) = {threads_[t].shard}

(***************************************************************************)
(* C26.  Every operation of the sharded cache holds at most one mutex, the *)
(* one of its shard, and holds none when it has returned, whether with     *)
(* true, with false or with kNull; so with a fair mutex and callbacks that *)
(* return, no interleaving deadlocks and every call that a thread has      *)
(* started returns.                                                        *)
(***************************************************************************)
OneLockAndEveryCallReturns ==
    /\ []LockDiscipline
    /\ \A t \in Threads :
         (threads_[t].pc # "idle") ~> (threads_[t].pc = "idle")

\* a call that failed its validation has returned while the other thread
\* waits for the mutex of a shard
FailedCallReturnedBesideWaiter ==
    /\ threads_ # <<>>
    /\ last.op = "Thread" /\ ~last.ok
    /\ \E t1 \in Threads, t2 \in Threads :
         /\ threads_[t1].pc = "idle"
         /\ threads_[t2].pc = "wait"
         /\ mutex_[threads_[t2].shard] = NoLock

(***************************************************************************)
(* C27: the constructor of ShardedFdKVCache keeps as shard_count_ the      *)
(* requested count clamped to [1, kMaxShards] and as per_shard_capacity_   *)
(* the least of ceil(total / shard_count_) and the number of local         *)
(* indexes, at least 1, where total is reserve_hint, or the default total  *)
(* when reserve_hint is 0.                                                 *)
(***************************************************************************)
\* the least q with q * b >= a, in the integers
CeilDiv(a, b) == CHOOSE q \in 0 .. a : q * b >= a /\ (q = 0 \/ (q - 1) * b < a)

Clamped(x, lo, hi) == IF x < lo THEN lo ELSE IF x > hi THEN hi ELSE x

ConstructionAsSpecified ==
    (call_ # <<>> /\ call_.fn = "ShardedFdKVCache" /\ ret_ # <<>>) =>
        LET shard_count == Clamped(call_.args[1], 1, kMaxShards)
            reserve_hint == call_.args[2]
            total == IF reserve_hint = 0 THEN Pow2(kDefaultReserveBits)
                                         ELSE reserve_hint
        IN  /\ ret_[1] = shard_count
            /\ ret_[2] = Clamped(CeilDiv(total, shard_count), 1, kLocalSpan)

(***************************************************************************)
(* C28: for every type, generation and position Make is called with, the   *)
(* handle it returns has the type in its highest kTypeBits bits, the low   *)
(* kGenerationBits bits of the generation in the bits below them and the   *)
(* position in its lowest kPositionBits bits, so that no bit belongs to    *)
(* two fields; Type and Position give back the arguments, and Generation   *)
(* gives back the generation when it fits kGenerationBits bits and its low *)
(* kGenerationBits bits when it does not.                                  *)
(***************************************************************************)
CodecRoundTrip ==
    (call_ # <<>> /\ call_.fn = "Make" /\ ret_ # <<>>) =>
        LET type == call_.args[1]
            generation == call_.args[2]
            position == call_.args[3]
            kept == generation % kGenerationSpan
        IN  /\ ret_[1] = (type * kGenerationSpan + kept) * kPositionSpan + position
            /\ ret_[1] \in Handles
            /\ ret_[2] = type
            /\ ret_[3] = kept
            /\ generation <= kMaxGeneration => ret_[3] = generation
            /\ ret_[4] = position

\* Make returned for a generation with a bit above the generation field and
\* the other two fields all ones
MadeOfOverwideGeneration ==
    /\ call_ # <<>> /\ call_.fn = "Make" /\ ret_ # <<>>
    /\ call_.args[2] > kMaxGeneration
    /\ call_.args[2] % kGenerationSpan # 0
    /\ call_.args[1] = 0
    /\ call_.args[3] = kPositionSpan - 1

(***************************************************************************)
(* The probe path of a key in a FlatIndexMap: the entries of the table     *)
(* from the key's initial bucket on, each once, in the order of the probe. *)
(***************************************************************************)
\* the index of the i-th entry on the path, i in 0..len-1
PathIndex(m, key, i) == (ProbeStart(m, key) + i) % TableSize(m)

PathSteps(m) == 0 .. (TableSize(m) - 1)

\* the steps at which the path meets an entry in the given state
StepsInState(m, key, state) ==
    {i \in PathSteps(m) : m.table_[PathIndex(m, key, i)].state = state}

Least(S) == CHOOSE i \in S : \A j \in S : i <= j

\* the steps of the path a probe sees: those up to the first Empty entry
SeenSteps(m, key) ==
    IF StepsInState(m, key, kEmpty) = {} THEN PathSteps(m)
    ELSE 0 .. Least(StepsInState(m, key, kEmpty))

\* the entries that hold the key
EntriesOf(m, key) ==
    {i \in DOMAIN m.table_ :
       m.table_[i].state = kOccupied /\ m.table_[i].key = key}

(***************************************************************************)
(* C29.  Probe chains survive erasure: in every state reachable by         *)
(* Insert/Erase on a FlatIndexMap, every key that was inserted and has not *)
(* been erased since is found by Find with its value, also when its probe  *)
(* path passes through tombstones, and for every key k, after Erase(k)     *)
(* Find returns for every other key what it returned before.               *)
(***************************************************************************)
ProbeChainsSurviveErase ==
    /\ \A key \in Keys :
         ref_[key] # Absent
           => FlatFind(flat_, key) = [found |-> TRUE, value |-> ref_[key][1]]
    /\ \A k \in Keys : \A other \in Keys \ {k} :
         FlatFind(FlatErase(flat_, k).m, other) = FlatFind(flat_, other)

\* Erase of a key has returned true, and a key that is present has the
\* tombstone of an erased key of its initial bucket before it on its path
ErasedBeforePresentKey ==
    /\ last.op = "IndexErase" /\ last.ok
    /\ \E key \in Keys :
         /\ ref_[key] # Absent
         /\ flat_.table_[ProbeStart(flat_, key)].state = kDeleted
         /\ flat_.hasher_[flat_.table_[ProbeStart(flat_, key)].key]
              = flat_.hasher_[key]

(***************************************************************************)
(* C30.  FlatIndexMap::Insert(k, v) in every state reachable by            *)
(* Insert/Erase: when k is present, true is returned and only the value of *)
(* k's entry changes, also when size == max_entries; when k is absent and  *)
(* size < max_entries, true is returned, k and v are stored at the first   *)
(* Deleted entry the probe sees on k's path, and tombstones is             *)
(* decremented, or at the first Empty entry when it sees no Deleted entry, *)
(* and size is incremented; when k is absent and size == max_entries,      *)
(* false is returned and the map is unchanged.                             *)
(***************************************************************************)
\* the step of the path at which Insert stores a key that is absent
StoreStep(m, key) ==
    LET deleted == StepsInState(m, key, kDeleted) \cap SeenSteps(m, key)
    IN  IF deleted # {} THEN Least(deleted)
        ELSE Least(StepsInState(m, key, kEmpty))

\* the map after key and value are stored at the entry idx
StoredAt(m, idx, key, value) ==
    [m EXCEPT !.table_[idx] = [key |-> key, value |-> value,
                               state |-> kOccupied],
              !.size_ = m.size_ + 1,
              !.tombstones_ = IF m.table_[idx].state = kDeleted
                              THEN m.tombstones_ - 1 ELSE m.tombstones_]

InsertOverwritesReusesOrRefuses ==
    \A key \in Keys, value \in Values :
      LET r == FlatInsert(flat_, key, value) IN
      IF EntriesOf(flat_, key) # {}
      THEN /\ r.ok
           /\ \E idx \in EntriesOf(flat_, key) :
                r.m = [flat_ EXCEPT !.table_[idx].value = value]
      ELSE IF flat_.size_ < flat_.max_entries_
      THEN /\ r.ok
           /\ r.m = StoredAt(flat_, PathIndex(flat_, key, StoreStep(flat_, key)),
                             key, value)
      ELSE /\ ~r.ok
           /\ r.m = flat_

\* Insert has overwritten the value of a present key in an index at its
\* logical capacity, where an absent key would take a tombstone that lies
\* before an Empty entry on its path
OverwroteInFullIndexWithTombstone ==
    /\ last.op = "IndexInsert" /\ last.ok /\ last.found
    /\ flat_.size_ = flat_.max_entries_
    /\ \E key \in Keys :
         /\ EntriesOf(flat_, key) = {}
         /\ StepsInState(flat_, key, kDeleted) \cap SeenSteps(flat_, key) # {}
         /\ StepsInState(flat_, key, kEmpty) # {}

(***************************************************************************)
(* What a call of Find, Insert or Erase that ran its loop a step at a time *)
(* has returned.                                                           *)
(***************************************************************************)
ProbeReturned(op) == probe_.pc = "idle" /\ probe_.op = op

\* the loop counter never passes the length of the table, and no call
\* enters more iterations than the table has entries
ProbeBounded ==
    /\ probe_.i <= TableSize(flat_)
    /\ probe_.steps <= TableSize(flat_)

\* Find and Erase of an absent key in a table without Empty entries
AbsentReportedWithoutEmpty ==
    \A op \in {"Find", "Erase"} :
      (ProbeReturned(op) /\ probe_.absent /\ probe_.no_empty)
        => (~probe_.ok /\ probe_.steps = TableSize(flat_))

(***************************************************************************)
(* C31, as the claim states it, without the termination: no call enters    *)
(* more than len iterations, and in a table that has no Empty entry Find   *)
(* and Erase of an absent key return false and Insert of an absent key     *)
(* reuses a tombstone.                                                     *)
(***************************************************************************)
InsertReusesTombstoneWithoutEmpty ==
    /\ ProbeBounded
    /\ AbsentReportedWithoutEmpty
    /\ (ProbeReturned("Insert") /\ probe_.absent /\ probe_.no_empty)
         => (probe_.ok /\ probe_.reused)

(***************************************************************************)
(* C31, amended.  Find, Insert and Erase of a FlatIndexMap return after at *)
(* most len iterations of their probe loop (len the length of the table),  *)
(* also in the reachable states in which no entry is Empty; in such a      *)
(* state Find and Erase of an absent key return false, and Insert of an    *)
(* absent key reuses a tombstone when size < max_entries and returns false *)
(* and leaves the table alone when size == max_entries.                    *)
(***************************************************************************)
ProbesTerminateWithinTable ==
    /\ [](/\ ProbeBounded
          /\ AbsentReportedWithoutEmpty
          /\ (ProbeReturned("Insert") /\ probe_.absent /\ probe_.no_empty)
               => IF probe_.full
                  THEN ~probe_.ok /\ ~probe_.reused
                       /\ flat_.size_ = flat_.max_entries_
                  ELSE probe_.ok /\ probe_.reused)
    /\ (probe_.pc = "loop") ~> (probe_.pc = "idle")

\* Insert of an absent key has gone once round a table without an Empty
\* entry and has reused a tombstone
InsertWentRoundFullTable ==
    /\ ProbeReturned("Insert") /\ probe_.absent /\ probe_.no_empty
    /\ probe_.ok /\ probe_.reused
    /\ probe_.steps = TableSize(flat_)
    /\ TableSize(flat_) > 1

(***************************************************************************)
(* C32.  In every state reachable through the public operations, of        *)
(* FdKVCache and of ShardedFdKVCache, for every handle that passes the     *)
(* validation of Erase the Erase of the index returns true for the key of  *)
(* the handle's slot, so that Erase of the handle returns true: the branch *)
(* that returns false after a successful validation is never taken.        *)
(***************************************************************************)
ValidHandleIsErased ==
    /\ HasFdKVCache =>
         \A handle \in Handles :
           ValidateHandle(handle) # kInvalidPosition
             => /\ FlatErase(key_to_position_,
                             slots_[ValidateHandle(handle)].key).ok
                /\ EraseResult(handle).ret
    /\ HasShardedFdKVCache =>
         \A handle \in Handles :
           ShardedValidates(handle)
             => /\ FlatErase(shards_[DecodePosition(handle).shard_id].key_to_local,
                             SlotOf(handle).key).ok
                /\ ShardedEraseResult(handle).ret

\* Erase has returned true for a handle of a sharded cache, and a handle
\* of the shard whose index now holds the tombstone still passes validation
ErasedValidHandleBesideTombstone ==
    /\ HasShardedFdKVCache
    /\ last.op = "ShardedErase" /\ last.ok
    /\ \E handle \in Handles :
         /\ ShardedValidates(handle)
         /\ shards_[DecodePosition(handle).shard_id].key_to_local.tombstones_ >= 1

(***************************************************************************)
(* C33.  The rollback branch of Insert is unreachable: in every reachable  *)
(* state of FdKVCache and of each shard, for every key the index does not  *)
(* hold, if AllocatePosition / AllocateLocal returns a position, the       *)
(* Insert of the index that follows returns true; so Insert and            *)
(* InsertOrAssign return kNull only when the slot store is full (the       *)
(* freelist is empty and next_unused has reached the capacity).            *)
(***************************************************************************)
\* the shard has no free slot
ShardStoreFull(shard) ==
    /\ shard.free_positions = <<>>
    /\ shard.next_unused >= Cardinality(DOMAIN shard.slots)

RollbackUnreachable ==
    /\ HasFdKVCache =>
         \A type \in Types, key \in Keys, value \in Values :
           /\ (~FlatFind(key_to_position_, key).found
                 /\ AllocatePosition.pos # kInvalidPosition)
                => FlatInsert(key_to_position_, key, AllocatePosition.pos).ok
           /\ (InsertResult(type, key, value).ret = kNull
                 \/ InsertOrAssignResult(type, key, value).ret = kNull)
                => (free_positions_ = <<>> /\ next_unused_ >= SlotCount)
    /\ HasShardedFdKVCache =>
         \A type \in Types, key \in Keys, value \in Values :
           LET shard == shards_[ShardForKey(key)] IN
           /\ (~FlatFind(shard.key_to_local, key).found
                 /\ AllocateLocal(shard).local # kInvalidPosition)
                => FlatInsert(shard.key_to_local, key,
                              AllocateLocal(shard).local).ok
           /\ (ShardedInsertResult(type, key, value).ret = kNull
                 \/ ShardedInsertOrAssignResult(type, key, value).ret = kNull)
                => ShardStoreFull(shard)

\* Insert has returned kNull from a cache whose slots are all occupied and
\* whose index holds a tombstone
InsertRefusedByFullStoreWithTombstone ==
    /\ HasFdKVCache
    /\ last.op = "Insert" /\ last.h = kNull
    /\ size_ = SlotCount
    /\ key_to_position_.tombstones_ >= 1

(***************************************************************************)
(* C34.  InsertOrAssign re-keys the capability: for every key that is      *)
(* present, h the handle of its entry and t the type stored with it, and   *)
(* every type t2 other than t, InsertOrAssign(t2, k, v) returns a handle   *)
(* of the position and the generation of h and of type t2; in the state it *)
(* leaves, the slot is occupied with the generation it had, the returned   *)
(* handle passes validation and h does not, so that Get(h) returns null    *)
(* and Erase(h) returns false.  The same holds of ShardedFdKVCache.        *)
(***************************************************************************)
RekeyedIn(slot, old_slot, h, ret, t2) ==
    /\ ret # kNull
    /\ Position(ret) = Position(h)
    /\ Generation(ret) = Generation(h)
    /\ Type(ret) = t2
    /\ slot.occupied = 1
    /\ slot.generation = old_slot.generation
    /\ slot.key = old_slot.key
    /\ ValidateSlot(slot, ret)
    /\ ~ValidateSlot(slot, h)

InsertOrAssignRekeys ==
    /\ HasFdKVCache =>
         \A key \in Keys, t2 \in Types, value \in Values :
           LET h == FindHandleResult(key)
               r == InsertOrAssignResult(t2, key, value)
           IN  (h # kNull /\ Type(h) # t2)
                 => /\ RekeyedIn(r.slots_[Position(h)], slots_[Position(h)],
                                 h, r.ret, t2)
                    /\ GetResultIn(r.slots_, r.ret) = <<Position(h)>>
                    /\ GetResultIn(r.slots_, h) = nullptr
                    /\ ValidateHandleIn(r.slots_, h) = kInvalidPosition
                    /\ r.size_ = size_
    /\ HasShardedFdKVCache =>
         \A key \in Keys, t2 \in Types, value \in Values :
           LET h == ShardedFindHandleResult(key)
               d == DecodePosition(h)
               r == ShardedInsertOrAssignResult(t2, key, value)
           IN  (h # kNull /\ Type(h) # t2)
                 => /\ RekeyedIn(r.shards_[d.shard_id].slots[d.local],
                                 SlotOf(h), h, r.ret, t2)
                    /\ r.size_ = sharded_size_

\* InsertOrAssign has changed the type of a key it found: the handle it
\* returned is valid, and the handle of the other type, which the key had
\* before, is not
InsertOrAssignRetyped ==
    /\ HasShardedFdKVCache
    /\ last.op = "ShardedInsertOrAssign" /\ last.retyped
    /\ ShardedValidates(last.h)
    /\ Generation(last.h) > 1
    /\ \E h \in Handles : TypeFlipped(h, last.h) /\ ~ShardedValidates(h)

(***************************************************************************)
(* C35.  Allocation conservation, in every reachable state of FdKVCache    *)
(* and of each shard: the number of live entries is next_unused minus the  *)
(* length of free_positions; every index in free_positions is below        *)
(* next_unused and refers to an unoccupied slot; no index is in            *)
(* free_positions twice; and every slot at an index from next_unused on is *)
(* unoccupied and has generation 1.  The size of FdKVCache is the number   *)
(* of its live entries, the size of ShardedFdKVCache the sum over the      *)
(* shards.                                                                 *)
(***************************************************************************)
\* conservation for one slot store: its slots, freelist and cursor
Conserved(slots, free, next) ==
    /\ Cardinality({p \in DOMAIN slots : slots[p].occupied = 1})
         = next - Len(free)
    /\ next <= Cardinality(DOMAIN slots)
    /\ \A n \in DOMAIN free :
         /\ free[n] < next
         /\ slots[free[n]].occupied = 0
    /\ \A n1 \in DOMAIN free, n2 \in DOMAIN free :
         n1 # n2 => free[n1] # free[n2]
    /\ \A p \in DOMAIN slots :
         p >= next => (slots[p].occupied = 0 /\ slots[p].generation = 1)

RECURSIVE SumOfLive(_)
SumOfLive(n) ==
    IF n = 0 THEN 0
    ELSE SumOfLive(n - 1) + shards_[n - 1].next_unused
                          - Len(shards_[n - 1].free_positions)

AllocationConserved ==
    /\ HasFdKVCache =>
         /\ Conserved(slots_, free_positions_, next_unused_)
         /\ size_ = next_unused_ - Len(free_positions_)
    /\ HasShardedFdKVCache =>
         /\ \A n \in DOMAIN shards_ :
              Conserved(shards_[n].slots, shards_[n].free_positions,
                        shards_[n].next_unused)
         /\ sharded_size_ = SumOfLive(shard_count_)

\* a shard whose cursor has reached its capacity holds a freed slot of a
\* later generation, and another shard holds a live entry
FreedAndLiveSlotsInFullyUsedShard ==
    /\ HasShardedFdKVCache
    /\ \E n \in DOMAIN shards_, m \in DOMAIN shards_ :
         /\ n # m
         /\ shards_[n].next_unused = per_shard_capacity_
         /\ Len(shards_[n].free_positions) = 1
         /\ shards_[n].slots[shards_[n].free_positions[1]].generation > 1
         /\ shards_[m].next_unused > Len(shards_[m].free_positions)
    /\ sharded_size_ >= 1

(***************************************************************************)
(* C36.  In every state reachable by Insert/Erase on a FlatIndexMap no key *)
(* is held by two Occupied entries, also after a new key was written into  *)
(* a tombstone that lies before other entries on its probe path; size_ is  *)
(* the number of Occupied entries and is at most max_entries.              *)
(***************************************************************************)
KeysHeldOnce ==
    /\ \A key \in Keys : Cardinality(EntriesOf(flat_, key)) <= 1
    /\ \A n1 \in OccupiedEntries(flat_), n2 \in OccupiedEntries(flat_) :
         flat_.table_[n1].key = flat_.table_[n2].key => n1 = n2
    /\ flat_.size_ = Cardinality(OccupiedEntries(flat_))
    /\ flat_.size_ <= flat_.max_entries_

\* Insert has written a new key into a tombstone at the start of its probe
\* path, and the next entry of the path holds another key of the same
\* initial bucket
ReusedTombstoneBeforeOtherKey ==
    /\ ProbeReturned("Insert") /\ probe_.absent /\ probe_.reused
    /\ flat_.table_[PathIndex(flat_, probe_.key, 0)].key = probe_.key
    /\ flat_.table_[PathIndex(flat_, probe_.key, 0)].state = kOccupied
    /\ TableSize(flat_) > 1
    /\ LET other == flat_.table_[PathIndex(flat_, probe_.key, 1)] IN
       /\ other.state = kOccupied
       /\ other.key # probe_.key
       /\ ProbeStart(flat_, other.key) = ProbeStart(flat_, probe_.key)

(***************************************************************************)
(* C37.  The capacity of ShardedFdKVCache is enforced per shard: Insert of *)
(* a key that is absent returns kNull exactly when the shard               *)
(* hash(key) mod shard_count holds per_shard_capacity live entries, which  *)
(* happens in states where size() is below shard_count *                   *)
(* per_shard_capacity and below reserve_hint; and Read, Get and Add called *)
(* with kNull return false.                                                *)
(***************************************************************************)
LiveInShard(n) ==
    Cardinality({p \in DOMAIN shards_[n].slots :
                   shards_[n].slots[p].occupied = 1})

CapacityIsPerShard ==
    HasShardedFdKVCache =>
      /\ \A type \in Types, key \in Keys, value \in Values :
           ~ShardedPresent(key)
             => ((ShardedInsertResult(type, key, value).ret = kNull)
                   <=> (LiveInShard(ShardForKey(key)) = per_shard_capacity_))
      /\ \A n \in DOMAIN shards_ : LiveInShard(n) <= per_shard_capacity_
      /\ ~ReadResult(kNull).ret
      /\ ~ShardedGetResult(kNull).ret
      /\ \A delta \in Values : AddResult(kNull, delta) = ShardedUnchanged(FALSE)
      /\ (last.op \in {"ShardedRead", "ShardedGet", "ShardedAdd"}
            /\ last.h = kNull) => ~last.ok

\* Add has returned false for the kNull that the Insert before it returned
\* for an absent key, with size() below shard_count * per_shard_capacity
\* and below the reserve_hint of the constructor
AddRefusedNullOfFullShard ==
    /\ last.op = "ShardedAdd" /\ last.h = kNull /\ ~last.ok
    /\ sharded_size_ < shard_count_ * per_shard_capacity_
    /\ sharded_size_ < call_.args[2]
    /\ \E key \in Keys :
         /\ ~ShardedPresent(key)
         /\ LiveInShard(ShardForKey(key)) = per_shard_capacity_

=============================================================================
